---- MODULE Spec2Model ----
(***************************************************************************)
(* Model of the server client of OpenPype:                                 *)
(*   src/openpype/client/server/entities.py  (v4 query functions and the   *)
(*                                            v3 public API on top of them)*)
(*   src/openpype/client/server/graphql.py   (the query builder)           *)
(*                                                                         *)
(* Every public function is one action: the caller picks the arguments,    *)
(* the server picks its answer, and the action records what the function   *)
(* bound on the query, how often it reached the connection and what it     *)
(* returned.  A call starts in "idle" and ends in "done"; Return takes the *)
(* result away.                                                            *)
(***************************************************************************)
EXTENDS Integers, Sequences, FiniteSets, TLC

VARIABLES
    pc,        \* "idle" | "done": no call pending / the last call returned
    fn,        \* name of the function called last
    args,      \* the arguments it was called with
    bound,     \* name -> value: what set_variable_value put on the query
    qfields,   \* the field set handed to the query factory
    lookups,   \* calls of get_server_api_connection()
    queries,   \* executions of the query on the connection
    raised,    \* "" or the name of the exception that left the call
    result,    \* what the call returned (a generator: what it yielded)
    local,     \* locals of the call that the result does not show
    query      \* the GraphQlQuery under construction and its field nodes

vars == <<pc, fn, args, bound, qfields, lookups, queries, raised, result, local, query>>

(***************************************************************************)
(* Python values                                                           *)
(***************************************************************************)
\* An optional argument: None, or Some(v).
None == <<>>
Some(v) == <<v>>
Val(o) == o[1]

\* The None object as an element of a caller's iterable.
PyNone == "<None>"

\* An empty dict.
EmptyDict == <<>>

RECURSIVE ListOf(_)
\* list(a_set): the elements once each. Python fixes no order for a set;
\* nothing below reads the order.
ListOf(S) ==
    IF S = {} THEN <<>>
    ELSE LET x == CHOOSE y \in S : TRUE
         IN  <<x>> \o ListOf(S \ {x})

Range(s) == {s[i] : i \in DOMAIN s}

RECURSIVE Flatten(_)
Flatten(ss) ==
    IF ss = <<>> THEN <<>> ELSE Head(ss) \o Flatten(Tail(ss))

RECURSIVE SelectSeqBy(_, _)
\* [x for x in s if x["active"] is want]
SelectSeqBy(s, want) ==
    IF s = <<>> THEN <<>>
    ELSE IF Head(s).active = want
         THEN <<Head(s)>> \o SelectSeqBy(Tail(s), want)
         ELSE SelectSeqBy(Tail(s), want)

(***************************************************************************)
(* Bounds and input domains                                                *)
(***************************************************************************)
NumIds == 1
MaxRecs == 1

IdNames == <<"id1", "id2", "id3">>
Ids == {IdNames[i] : i \in 1..NumIds}

ProjectNames == {"", "proj1"}

\* An iterable filter argument: None, or an iterable with these elements.
IdFilters == {None} \cup {Some(S) : S \in SUBSET Ids}
PathFilters == {None, Some({}), Some({"/sh010"})}
NameFilters == {None, Some({}), Some({"main"})}
TypeFilters == {None, Some({}), Some({"Compositing"})}
ParentFilters ==
    {None} \cup {Some(S) : S \in SUBSET ({PyNone, "proj1", "root"} \cup Ids)}
ActiveFilters == {None, Some(TRUE), Some(FALSE)}
FieldArgs == {None, Some({"id", "name"})}

VersionNumberFilters == {None, Some({}), Some({1})}
RepNames == {"main", "exr"}
\* names_by_version_ids: None, or a dict from version ids to name lists.
NamesByVersionIds ==
    {None} \cup {Some(m) : m \in UNION {[K -> SUBSET RepNames] : K \in SUBSET Ids}}

\* Versions as the server answers them: negative numbers are hero versions.
SomeVersionRecs ==
    {[id |-> "v1", version |-> 1, subsetId |-> "s1"],
     [id |-> "v2", version |-> -1, subsetId |-> "s1"]}

\* The default field sets of .constants, which src/ does not hold: one
\* representative field set per entity kind.
DEFAULT_FOLDER_FIELDS == {"id", "name", "path", "parentId", "active"}
DEFAULT_V3_FOLDER_FIELDS == DEFAULT_FOLDER_FIELDS \cup {"tasks"}
DEFAULT_VERSION_FIELDS == {"id", "version", "subsetId", "active"}
DEFAULT_REPRESENTATION_FIELDS == {"id", "name", "versionId", "active"}

\* What the server can answer: folders, tasks and representations as
\* records with an id and the active flag.
EntityRecs == {[id |-> IdNames[i], active |-> a] : i \in 1..MaxRecs, a \in BOOLEAN}

SeqsUpTo(S, n) == UNION {[1..k -> S] : k \in 0..n}

\* A paginated answer: pages of records, MaxRecs records in all at most.
PageSeqs ==
    {ps \in SeqsUpTo(SeqsUpTo(EntityRecs, MaxRecs) \ {<<>>}, MaxRecs) :
        Len(Flatten(ps)) <= MaxRecs}

(***************************************************************************)
(* graphql.py: GraphQlQuery and GraphQlQueryItem                           *)
(***************************************************************************)
MaxNodes == 2
MaxVariables == 1
MaxReattach == 1

\* graphql.py 108: GraphQlQuery.offset
offset == 2

\* A field node is known by its place in query.nodes; a parent is a field
\* node or, as 0, the query itself.
TheQuery == 0

\* graphql.py 110-113
GraphQlQuery(name) ==
    [name |-> name, variables |-> <<>>, children |-> <<>>, nodes |-> <<>>]

\* graphql.py 181-191
GraphQlQueryItem(name, parent, has_edges) ==
    [name |-> name, parent |-> parent, has_edges |-> has_edges,
     filters |-> <<>>, children |-> <<>>]

ChildrenOf(q, parent) ==
    IF parent = TheQuery THEN q.children ELSE q.nodes[parent].children

WithChild(q, parent, field) ==
    IF parent = TheQuery
    THEN [q EXCEPT !.children = Append(@, field)]
    ELSE [q EXCEPT !.nodes[parent].children = Append(@, field)]

\* graphql.py 142-147 and 222-227: 'if field in self._children: return;
\* self._children.append(field); field.set_parent(self)', where set_parent
\* (216-220) rebinds the parent reference and calls back add_obj_field,
\* which then finds the field among the children.
add_obj_field_mut(q, parent, field) ==
    [WithChild(q, parent, field) EXCEPT !.nodes[field].parent = parent]
add_obj_field(q, parent, field) ==
    IF field \in Range(ChildrenOf(q, parent)) THEN q
    ELSE LET q1 == WithChild(q, parent, field)
         IN  IF q1.nodes[field].parent = parent THEN q1
             ELSE [q1 EXCEPT !.nodes[field].parent = parent]

\* graphql.py 216-220: 'if self._parent is parent: return;
\* self._parent = parent; parent.add_obj_field(self)'
set_parent(q, field, parent) ==
    IF q.nodes[field].parent = parent THEN q
    ELSE add_obj_field([q EXCEPT !.nodes[field].parent = parent], parent, field)

\* graphql.py 149-152 and 229-232
add_field(q, parent, name, has_edges) ==
    add_obj_field(
        [q EXCEPT !.nodes = Append(@, GraphQlQueryItem(name, parent, has_edges))],
        parent, Len(q.nodes) + 1)

\* graphql.py 123-128: the variables dict keeps the order of first
\* insertion; a key set again keeps its place and takes the new entry.
add_variable(q, key, value_type, value) ==
    LET entry == [key |-> key, type |-> value_type, value |-> value]
    IN  IF \E i \in DOMAIN q.variables : q.variables[i].key = key
        THEN [q EXCEPT !.variables =
                [i \in DOMAIN q.variables |->
                    IF q.variables[i].key = key THEN entry ELSE q.variables[i]]]
        ELSE [q EXCEPT !.variables = Append(@, entry)]

\* graphql.py 208-211: a QueryVariable is stored as its '$name' text.
filter(q, field, key, value) ==
    LET stored == IF value.kind = "variable"
                  THEN [kind |-> "str", text |-> "$" \o value.text]
                  ELSE value
        old == q.nodes[field].filters
    IN  IF \E i \in DOMAIN old : old[i].key = key
        THEN [q EXCEPT !.nodes[field].filters =
                [i \in DOMAIN old |->
                    IF old[i].key = key
                    THEN [key |-> key, value |-> stored] ELSE old[i]]]
        ELSE [q EXCEPT !.nodes[field].filters =
                Append(@, [key |-> key, value |-> stored])]

RECURSIVE JoinStr(_, _)
\* sep.join(strings)
JoinStr(strings, sep) ==
    IF strings = <<>> THEN ""
    ELSE IF Len(strings) = 1 THEN strings[1]
    ELSE strings[1] \o sep \o JoinStr(Tail(strings), sep)

RECURSIVE Spaces(_)
\* n * " "
Spaces(n) == IF n <= 0 THEN "" ELSE " " \o Spaces(n - 1)

\* graphql.py 78-81: only the str type itself has a conversion; any other
\* value, the text "String!" among them, raises TypeError.
value_type_to_string(value_type) ==
    IF value_type = "<class 'str'>"
    THEN [raised |-> "", text |-> "String"]
    ELSE [raised |-> "TypeError", text |-> ""]

\* The deepest chain of calls Python follows before RecursionError: a
\* chain longer than the number of nodes has met a node twice.
RecursionLimit(q) == Len(q.nodes) + 1

RECURSIVE Indent(_, _, _)
\* graphql.py 115-121 and 197-206: indent and child_indent follow the
\* parent references; -1 stands for RecursionError.
Indent(q, field, fuel) ==
    IF field = TheQuery THEN 0
    ELSE IF fuel = 0 THEN -1
    ELSE LET up == q.nodes[field].parent
             up_indent == Indent(q, up, fuel - 1)
             up_child_indent ==
                IF up # TheQuery /\ q.nodes[up].has_edges
                THEN up_indent + offset * 2 ELSE up_indent
         IN  IF up_indent < 0 THEN -1 ELSE up_child_indent + offset

\* graphql.py 234-257: a literal that is no string and can be iterated is
\* rendered as its bracketed, quoted items, without its key; anything else
\* as 'key: value'.
FilterToString(f) ==
    IF f.value.kind = "list"
    THEN "[" \o JoinStr([i \in DOMAIN f.value.items |->
                            "\"" \o f.value.items[i] \o "\""], ", ") \o "]"
    ELSE f.key \o ": " \o f.value.text

_filters_to_string(filters) ==
    IF filters = <<>> THEN ""
    ELSE "(" \o JoinStr([i \in DOMAIN filters |-> FilterToString(filters[i])], ", ")
             \o ")"

RECURSIVE ItemQuery(_, _, _)
RECURSIVE ItemsQuery(_, _, _)
\* The children in order, up to the first that raises.
ItemsQuery(q, children, fuel) ==
    IF children = <<>> THEN [raised |-> "", texts |-> <<>>]
    ELSE LET first == ItemQuery(q, Head(children), fuel)
         IN  IF first.raised # "" THEN [raised |-> first.raised, texts |-> <<>>]
             ELSE LET rest == ItemsQuery(q, Tail(children), fuel)
                  IN  IF rest.raised # "" THEN rest
                      ELSE [raised |-> "", texts |-> <<first.text>> \o rest.texts]

\* graphql.py 259-287: GraphQlQueryItem.calculate_query
ItemQueryMut(q, field, fuel) ==
    LET node == q.nodes[field]
        indent == Indent(q, field, RecursionLimit(q))
        pad == Spaces(indent)
        header == pad \o node.name \o _filters_to_string(node.filters)
        edges_offset == pad \o Spaces(offset)
        node_offset == edges_offset \o Spaces(offset)
    IN  IF fuel = 0 \/ indent < 0 THEN [raised |-> "RecursionError", text |-> ""]
        ELSE IF node.children = <<>>
        THEN IF node.has_edges
             THEN [raised |-> "ValueError", text |-> ""]
             ELSE [raised |-> "", text |-> header]
        ELSE LET inner == ItemsQuery(q, node.children, fuel - 1)
             IN  IF inner.raised # "" THEN [raised |-> inner.raised, text |-> ""]
                 ELSE [raised |-> "",
                       text |-> JoinStr(
                            <<header \o " {">>
                            \o (IF node.has_edges
                                THEN <<edges_offset \o "edges {", node_offset \o "node {">>
                                ELSE <<>>)
                            \o inner.texts
                            \o (IF node.has_edges
                                THEN <<edges_offset \o "}">>
                                ELSE <<>>)
                            \o <<pad \o "}">>, "\n")]
ItemQuery(q, field, fuel) ==
    LET node == q.nodes[field]
        indent == Indent(q, field, RecursionLimit(q))
        pad == Spaces(indent)
        header == pad \o node.name \o _filters_to_string(node.filters)
        edges_offset == pad \o Spaces(offset)
        node_offset == edges_offset \o Spaces(offset)
    IN  IF fuel = 0 \/ indent < 0 THEN [raised |-> "RecursionError", text |-> ""]
        ELSE IF node.children = <<>>
        THEN IF node.has_edges
             THEN [raised |-> "ValueError", text |-> ""]
             ELSE [raised |-> "", text |-> header]
        ELSE LET inner == ItemsQuery(q, node.children, fuel - 1)
             IN  IF inner.raised # "" THEN [raised |-> inner.raised, text |-> ""]
                 ELSE [raised |-> "",
                       text |-> JoinStr(
                            <<header \o " {">>
                            \o (IF node.has_edges
                                THEN <<edges_offset \o "edges {", node_offset \o "node {">>
                                ELSE <<>>)
                            \o inner.texts
                            \o (IF node.has_edges
                                THEN <<node_offset \o "}", edges_offset \o "}">>
                                ELSE <<>>)
                            \o <<pad \o "}">>, "\n")]

RECURSIVE VariablesToStrings(_)
\* graphql.py 158-164: one '$name: Type!' per variable, up to the first
\* type without a conversion.
VariablesToStrings(variables) ==
    IF variables = <<>> THEN [raised |-> "", texts |-> <<>>]
    ELSE LET type == value_type_to_string(Head(variables).type)
             rest == VariablesToStrings(Tail(variables))
         IN  IF type.raised # "" THEN [raised |-> type.raised, texts |-> <<>>]
             ELSE IF rest.raised # "" THEN rest
             ELSE [raised |-> "",
                   texts |-> <<"$" \o Head(variables).key \o ": " \o type.text \o "!">>
                                \o rest.texts]

\* graphql.py 154-177: GraphQlQuery.calculate_query
calculate_query_mut(q) ==
    LET inner == ItemsQuery(q, q.children, RecursionLimit(q))
    IN  IF inner.raised # "" THEN [raised |-> inner.raised, text |-> ""]
        ELSE [raised |-> "",
              text |-> JoinStr(<<"query " \o q.name \o " {">> \o inner.texts \o <<"}">>, "\n")]
calculate_query(q) ==
    IF q.children = <<>> THEN [raised |-> "ValueError", text |-> ""]
    ELSE LET variables == VariablesToStrings(q.variables)
             variables_str ==
                IF variables.texts = <<>> THEN ""
                ELSE "(" \o JoinStr(variables.texts, ",") \o ")"
             header == "query " \o q.name \o variables_str
             inner == ItemsQuery(q, q.children, RecursionLimit(q))
         IN  IF variables.raised # "" THEN [raised |-> variables.raised, text |-> ""]
             ELSE IF inner.raised # "" THEN [raised |-> inner.raised, text |-> ""]
             ELSE [raised |-> "",
                   text |-> JoinStr(<<header \o " {">> \o inner.texts \o <<"}">>, "\n")]

(***************************************************************************)
(* What a call leaves behind                                               *)
(***************************************************************************)
\* The early 'return []': no query was built, nothing was asked.
EmptyOutcome ==
    [filters |-> EmptyDict, fields |-> {}, lookups |-> 0, local |-> EmptyDict,
     queries |-> 0, raised |-> "", result |-> <<>>]

\* 'if con is None: con = get_server_api_connection()'; con is TRUE when the
\* caller handed a connection in.
ConLookups(con) == IF con THEN 0 ELSE 1

\* 'if x is not None: x = set(x); if not x: return []'
IsEmptyFilterMut(arg) == FALSE
IsEmptyFilter(arg) == arg # None /\ Val(arg) = {}

\* 'if x is not None: ... filters[name] = list(x)'
ListFilterMut(name, arg) == name :> ListOf(IF arg = None THEN {} ELSE Val(arg))
ListFilter(name, arg) ==
    IF arg = None THEN EmptyDict ELSE name :> ListOf(Val(arg))

(***************************************************************************)
(* get_v4_folders, get_v4_tasks, get_v4_folders_tasks                      *)
(***************************************************************************)
\* entities.py 173-189: the parent ids as the server wants them, "root" in
\* place of None and of the project's own name.
parent_folder_ids_mut(project_name, parent_ids) ==
    IF PyNone \in parent_ids
    THEN (parent_ids \ {PyNone}) \cup {"root"}
    ELSE parent_ids
parent_folder_ids(project_name, parent_ids) ==
    LET no_none ==
            IF PyNone \in parent_ids
            THEN (parent_ids \ {PyNone}) \cup {"root"}
            ELSE parent_ids
    IN  IF project_name \in no_none
        THEN (no_none \ {project_name}) \cup {"root"}
        ELSE no_none

ParentFilter(project_name, parent_ids) ==
    IF parent_ids = None THEN EmptyDict
    ELSE "parentFolderIds" :>
            ListOf(parent_folder_ids(project_name, Val(parent_ids)))

\* 'if not fields: fields = DEFAULT; fields = set(fields);
\*  if active is not None: fields.add("active")'
FieldsWithActiveMut(fields, default, active) ==
    (IF fields = None THEN default ELSE Val(fields)) \cup {"active"}
FieldsWithActive(fields, default, active) ==
    (IF fields = None \/ Val(fields) = {} THEN default ELSE Val(fields))
        \cup (IF active # None THEN {"active"} ELSE {})

\* 'if active is None: return xs; return [x for x in xs if x["active"] is active]'
ActiveOnlyMut(xs, active) ==
    IF active = None THEN xs ELSE SelectSeqBy(xs, TRUE)
ActiveOnly(xs, active) ==
    IF active = None THEN xs ELSE SelectSeqBy(xs, Val(active))

FolderFilters(project_name, folder_ids, folder_paths, folder_names, parent_ids) ==
    ("projectName" :> project_name)
        @@ ListFilter("folderIds", folder_ids)
        @@ ListFilter("folderPaths", folder_paths)
        @@ ListFilter("folderNames", folder_names)
        @@ ParentFilter(project_name, parent_ids)

\* 'pages' is the server's answer to the paginated query, page by page.
get_v4_folders(project_name, folder_ids, folder_paths, folder_names, parent_ids, active, fields, con, pages) ==
    IF project_name = "" THEN EmptyOutcome
    ELSE IF IsEmptyFilter(folder_ids) THEN EmptyOutcome
    ELSE IF IsEmptyFilter(folder_paths) THEN EmptyOutcome
    ELSE IF IsEmptyFilter(folder_names) THEN EmptyOutcome
    ELSE IF IsEmptyFilter(parent_ids) THEN EmptyOutcome
    ELSE [filters |-> FolderFilters(project_name, folder_ids, folder_paths,
                                    folder_names, parent_ids),
          fields  |-> FieldsWithActive(fields, DEFAULT_FOLDER_FIELDS, active),
          lookups |-> ConLookups(con),
          local   |-> [pages |-> pages],
          queries |-> IF pages = <<>> THEN 1 ELSE Len(pages),
          raised  |-> "",
          result  |-> ActiveOnly(Flatten(pages), active)]

\* 'resp' is the server's answer: parsed_data["project"]["tasks"].
get_v4_tasks(project_name, task_ids, task_names, task_types, folder_ids, active, fields, con, resp) ==
    IF project_name = "" THEN EmptyOutcome
    ELSE IF IsEmptyFilter(task_ids) THEN EmptyOutcome
    ELSE IF IsEmptyFilter(task_names) THEN EmptyOutcome
    ELSE IF IsEmptyFilter(task_types) THEN EmptyOutcome
    ELSE IF IsEmptyFilter(folder_ids) THEN EmptyOutcome
    ELSE [filters |-> ("projectName" :> project_name)
                        @@ ListFilter("taskIds", task_ids)
                        @@ ListFilter("taskNames", task_names)
                        @@ ListFilter("taskTypes", task_types)
                        @@ ListFilter("folderIds", folder_ids),
          fields  |-> FieldsWithActive(fields, DEFAULT_FOLDER_FIELDS, active),
          lookups |-> ConLookups(con),
          local   |-> [pages |-> <<resp>>],
          queries |-> 1,
          raised  |-> "",
          result  |-> ActiveOnly(resp, active)]

get_v4_folders_tasks(project_name, folder_ids, folder_paths, folder_names, parent_ids, active, fields, con, resp) ==
    IF project_name = "" THEN EmptyOutcome
    ELSE IF IsEmptyFilter(folder_ids) THEN EmptyOutcome
    ELSE IF IsEmptyFilter(folder_paths) THEN EmptyOutcome
    ELSE IF IsEmptyFilter(folder_names) THEN EmptyOutcome
    ELSE IF IsEmptyFilter(parent_ids) THEN EmptyOutcome
    ELSE [filters |-> FolderFilters(project_name, folder_ids, folder_paths,
                                    folder_names, parent_ids),
          fields  |-> FieldsWithActive(fields, DEFAULT_V3_FOLDER_FIELDS, active),
          lookups |-> ConLookups(con),
          local   |-> [pages |-> <<resp>>],
          queries |-> 1,
          raised  |-> "",
          result  |-> ActiveOnly(resp, active)]

(***************************************************************************)
(* get_v4_versions                                                         *)
(***************************************************************************)
\* 'hero', 'standard' are booleans; 'latest' is None, True or False and is
\* read by its truth value.
Truthy(opt) == opt = Some(TRUE)

\* entities.py 437-443: at most one of the three mode flags.
VersionModeFilterMut(hero, standard, latest) ==
    IF hero /\ Truthy(latest) THEN "heroOrLatestOnly" :> TRUE
    ELSE IF hero /\ ~standard THEN "heroOnly" :> TRUE
    ELSE IF Truthy(latest) THEN "latestOnly" :> TRUE
    ELSE EmptyDict
VersionModeFilter(hero, standard, latest) ==
    IF hero /\ ~standard THEN "heroOnly" :> TRUE
    ELSE IF hero /\ Truthy(latest) THEN "heroOrLatestOnly" :> TRUE
    ELSE IF Truthy(latest) THEN "latestOnly" :> TRUE
    ELSE EmptyDict

\* 'if not fields: fields = DEFAULT; fields = set(fields)'
FieldsOrDefault(fields, default) ==
    IF fields = None \/ Val(fields) = {} THEN default ELSE Val(fields)

\* 'resp' is the server's answer: parsed_data["project"]["versions"].
get_v4_versions(project_name, version_ids, subset_ids, versions, hero, standard, latest, fields, con, resp) ==
    IF IsEmptyFilter(version_ids) THEN EmptyOutcome
    ELSE IF IsEmptyFilter(subset_ids) THEN EmptyOutcome
    ELSE IF IsEmptyFilter(versions) THEN EmptyOutcome
    ELSE IF ~hero /\ ~standard THEN EmptyOutcome
    ELSE [filters |-> ("projectName" :> project_name)
                        @@ ListFilter("versionIds", version_ids)
                        @@ ListFilter("subsetIds", subset_ids)
                        @@ ListFilter("versions", versions)
                        @@ VersionModeFilter(hero, standard, latest),
          fields  |-> FieldsOrDefault(fields, DEFAULT_VERSION_FIELDS)
                        \cup {"id", "version"},
          lookups |-> ConLookups(con),
          local   |-> EmptyDict,
          queries |-> 1,
          raised  |-> "",
          result  |-> resp]

(***************************************************************************)
(* get_v4_representations, get_representations                             *)
(***************************************************************************)
\* A names_by_version_ids dict is a function from version ids to sets of
\* names.
MappingKeys(m) == DOMAIN m
MappingNames(m) == UNION {m[k] : k \in DOMAIN m}

\* entities.py 513-534: the version ids and the names to filter by, each
\* None or a set; 'stop' when the function returns [] here.
RepresentationNameFiltersMut(representation_names, version_ids, names_by_version_ids) ==
    IF IsEmptyFilter(representation_names)
    THEN [version_ids |-> None, names |-> representation_names, stop |-> TRUE]
    ELSE [version_ids |-> version_ids, names |-> representation_names,
          stop |-> IsEmptyFilter(version_ids)]
RepresentationNameFilters(representation_names, version_ids, names_by_version_ids) ==
    IF names_by_version_ids # None
    THEN LET m == Val(names_by_version_ids)
         IN  [version_ids |-> Some(MappingKeys(m)),
              names |-> Some(MappingNames(m)),
              stop |-> MappingKeys(m) = {} \/ MappingNames(m) = {}]
    ELSE IF IsEmptyFilter(representation_names)
         THEN [version_ids |-> None, names |-> representation_names, stop |-> TRUE]
         ELSE [version_ids |-> version_ids, names |-> representation_names,
               stop |-> IsEmptyFilter(version_ids)]

\* 'if xs_filter: filters[name] = list(xs_filter)': None and the empty set
\* both bind nothing.
TruthyListFilter(name, arg) ==
    IF arg = None \/ Val(arg) = {} THEN EmptyDict ELSE name :> ListOf(Val(arg))

\* entities.py 551-558: the filter runs when active IS None and keeps the
\* records whose 'active' equals None; reading 'active' of a record that
\* was queried without that field raises KeyError.
RepresentationsActive(resp, active, fields) ==
    IF active # None THEN [raised |-> "", result |-> resp]
    ELSE IF resp # <<>> /\ "active" \notin fields
         THEN [raised |-> "KeyError", result |-> <<>>]
         ELSE [raised |-> "", result |-> SelectSeq(resp, LAMBDA r : FALSE)]

\* 'resp' is the server's answer: parsed_data["project"]["representations"].
get_v4_representations(project_name, representation_ids, representation_names, version_ids, names_by_version_ids, active, fields, con, resp) ==
    LET qf == FieldsWithActive(fields, DEFAULT_REPRESENTATION_FIELDS, active)
        nf == RepresentationNameFilters(representation_names, version_ids,
                                        names_by_version_ids)
        post == RepresentationsActive(resp, active, qf)
    IN  IF IsEmptyFilter(representation_ids) THEN EmptyOutcome
        ELSE IF nf.stop THEN EmptyOutcome
        ELSE [filters |-> ("projectName" :> project_name)
                            @@ ListFilter("representationIds", representation_ids)
                            @@ TruthyListFilter("versionIds", nf.version_ids)
                            @@ TruthyListFilter("representationNames", nf.names),
              fields  |-> qf,
              lookups |-> ConLookups(con),
              local   |-> [representations |-> resp],
              queries |-> 1,
              raised  |-> post.raised,
              result  |-> post.result]

\* conversion_utils is not part of src/: the converters rename 'id' to
\* '_id', and the field converters hand None on as None.
representation_fields_v3_to_v4(fields) == fields
convert_v4_representation_to_v3(repre) == [_id |-> repre.id, type |-> "representation"]

\* entities.py 1162-1167
RepresentationsActiveArgMut(archived, standard) ==
    IF archived THEN Some(FALSE) ELSE Some(TRUE)
RepresentationsActiveArg(archived, standard) ==
    IF archived /\ ~standard THEN Some(FALSE)
    ELSE IF ~archived /\ standard THEN Some(TRUE)
    ELSE None

\* The local 'active' is what get_v4_representations is called with.
get_representations_mut(project_name, representation_ids, representation_names, version_ids, context_filters, names_by_version_ids, archived, standard, fields, con, resp) ==
    IF ~archived /\ ~standard THEN EmptyOutcome
    ELSE IF context_filters # None
    THEN [EmptyOutcome EXCEPT !.raised = "ValueError"]
    ELSE EmptyOutcome
get_representations(project_name, representation_ids, representation_names, version_ids, context_filters, names_by_version_ids, archived, standard, fields, con, resp) ==
    IF context_filters # None
    THEN [EmptyOutcome EXCEPT !.raised = "ValueError"]
    ELSE IF ~archived /\ ~standard THEN EmptyOutcome
    ELSE LET out == get_v4_representations(
                        project_name, representation_ids, representation_names,
                        version_ids, names_by_version_ids,
                        RepresentationsActiveArg(archived, standard),
                        representation_fields_v3_to_v4(fields), con, resp)
         IN  [out EXCEPT
                !.local = ("active" :> RepresentationsActiveArg(archived, standard))
                            @@ out.local,
                !.result = [i \in DOMAIN out.result |->
                                convert_v4_representation_to_v3(out.result[i])]]

(***************************************************************************)
(* The calls of the v4 query functions                                     *)
(***************************************************************************)
Idle ==
    /\ pc = "idle"
    /\ fn = ""
    /\ args = EmptyDict
    /\ bound = EmptyDict
    /\ qfields = {}
    /\ lookups = 0
    /\ queries = 0
    /\ raised = ""
    /\ result = <<>>
    /\ local = EmptyDict
    /\ query = GraphQlQuery("Query")

\* The call of 'name' with the arguments 'a' ended as 'out' says.
Done(name, a, out) ==
    /\ pc' = "done"
    /\ fn' = name
    /\ args' = a
    /\ bound' = out.filters
    /\ qfields' = out.fields
    /\ lookups' = out.lookups
    /\ queries' = out.queries
    /\ raised' = out.raised
    /\ result' = out.result
    /\ local' = out.local
    /\ UNCHANGED query

Return ==
    /\ pc = "done"
    /\ pc' = "idle"
    /\ fn' = ""
    /\ args' = EmptyDict
    /\ bound' = EmptyDict
    /\ qfields' = {}
    /\ lookups' = 0
    /\ queries' = 0
    /\ raised' = ""
    /\ result' = <<>>
    /\ local' = EmptyDict
    /\ UNCHANGED query

\* The fields a caller of get_v4_folders names: none, no field at all, or
\* fields with and without 'active'.
FolderFieldArgs == FieldArgs \cup {Some({}), Some({"id", "active"})}

CallV4Folders ==
    /\ pc = "idle"
    /\ \E project_name \in ProjectNames, folder_ids \in IdFilters,
          folder_paths \in PathFilters, folder_names \in NameFilters,
          parent_ids \in ParentFilters, active \in ActiveFilters,
          fields \in FolderFieldArgs, pages \in PageSeqs :
        Done("get_v4_folders",
             [project_name |-> project_name, folder_ids |-> folder_ids,
              folder_paths |-> folder_paths, folder_names |-> folder_names,
              parent_ids |-> parent_ids, active |-> active, fields |-> fields],
             get_v4_folders(project_name, folder_ids, folder_paths,
                            folder_names, parent_ids, active, fields, TRUE,
                            pages))

CallV4Tasks ==
    /\ pc = "idle"
    /\ \E project_name \in ProjectNames, task_ids \in IdFilters,
          task_names \in NameFilters, task_types \in TypeFilters,
          folder_ids \in IdFilters, active \in ActiveFilters,
          fields \in FieldArgs, resp \in SeqsUpTo(EntityRecs, MaxRecs) :
        Done("get_v4_tasks",
             [project_name |-> project_name, task_ids |-> task_ids,
              task_names |-> task_names, task_types |-> task_types,
              folder_ids |-> folder_ids, active |-> active, fields |-> fields],
             get_v4_tasks(project_name, task_ids, task_names, task_types,
                          folder_ids, active, fields, TRUE, resp))

CallV4FoldersTasks ==
    /\ pc = "idle"
    /\ \E project_name \in ProjectNames, folder_ids \in IdFilters,
          folder_paths \in PathFilters, folder_names \in NameFilters,
          parent_ids \in ParentFilters, active \in ActiveFilters,
          fields \in FieldArgs, resp \in SeqsUpTo(EntityRecs, MaxRecs) :
        Done("get_v4_folders_tasks",
             [project_name |-> project_name, folder_ids |-> folder_ids,
              folder_paths |-> folder_paths, folder_names |-> folder_names,
              parent_ids |-> parent_ids, active |-> active, fields |-> fields],
             get_v4_folders_tasks(project_name, folder_ids, folder_paths,
                                  folder_names, parent_ids, active, fields,
                                  TRUE, resp))

CallV4Versions ==
    /\ pc = "idle"
    /\ \E project_name \in ProjectNames, version_ids \in IdFilters,
          subset_ids \in IdFilters, versions \in VersionNumberFilters,
          hero \in BOOLEAN, standard \in BOOLEAN, latest \in ActiveFilters,
          fields \in FieldArgs, resp \in SeqsUpTo(SomeVersionRecs, MaxRecs) :
        Done("get_v4_versions",
             [project_name |-> project_name, version_ids |-> version_ids,
              subset_ids |-> subset_ids, versions |-> versions, hero |-> hero,
              standard |-> standard, latest |-> latest, fields |-> fields],
             get_v4_versions(project_name, version_ids, subset_ids, versions,
                             hero, standard, latest, fields, TRUE, resp))

CallV4Representations ==
    /\ pc = "idle"
    /\ \E project_name \in ProjectNames, representation_ids \in IdFilters,
          representation_names \in NameFilters, version_ids \in IdFilters,
          names_by_version_ids \in NamesByVersionIds, active \in ActiveFilters,
          fields \in FieldArgs, resp \in SeqsUpTo(EntityRecs, MaxRecs) :
        Done("get_v4_representations",
             [project_name |-> project_name,
              representation_ids |-> representation_ids,
              representation_names |-> representation_names,
              version_ids |-> version_ids,
              names_by_version_ids |-> names_by_version_ids,
              active |-> active, fields |-> fields],
             get_v4_representations(project_name, representation_ids,
                                    representation_names, version_ids,
                                    names_by_version_ids, active, fields,
                                    TRUE, resp))

CallGetRepresentations ==
    /\ pc = "idle"
    /\ \E representation_ids \in IdFilters,
          representation_names \in NameFilters, version_ids \in IdFilters,
          context_filters \in {None, Some("context")},
          names_by_version_ids \in NamesByVersionIds,
          archived \in BOOLEAN, standard \in BOOLEAN, con \in BOOLEAN,
          resp \in SeqsUpTo(EntityRecs, MaxRecs) :
        Done("get_representations",
             [project_name |-> "proj1",
              representation_ids |-> representation_ids,
              representation_names |-> representation_names,
              version_ids |-> version_ids,
              context_filters |-> context_filters,
              names_by_version_ids |-> names_by_version_ids,
              archived |-> archived, standard |-> standard, con |-> con],
             get_representations("proj1", representation_ids,
                                 representation_names, version_ids,
                                 context_filters, names_by_version_ids,
                                 archived, standard, None, con, resp))

Init == Idle

Next ==
    \/ CallV4Folders
    \/ CallV4Tasks
    \/ CallV4FoldersTasks
    \/ CallV4Versions
    \/ CallV4Representations
    \/ CallGetRepresentations
    \/ Return

Spec == Init /\ [][Next]_vars

(***************************************************************************)
(* get_v4_projects, get_projects                                           *)
(***************************************************************************)
MaxProjects == 2

ProjectRecNames == <<"proj1", "proj2", "proj3">>

\* The projects the server holds, in its order.
ServerProjects ==
    UNION {{ps \in [1..k -> [name : {ProjectRecNames[i] : i \in 1..k},
                              active : BOOLEAN, library : BOOLEAN]] :
                \A i \in 1..k : ps[i].name = ProjectRecNames[i]} :
           k \in 0..MaxProjects}

\* The connection is not part of src/: get_rest_projects(active, library)
\* answers with the projects that match the two flags, None matching all.
get_rest_projects(projects, active, library) ==
    SelectSeq(projects,
              LAMBDA p : /\ (active = None \/ p.active = Val(active))
                         /\ (library = None \/ p.library = Val(library)))

\* The pages continuous_query walks: the answer to a query on which no
\* variable was bound is every project, cut in two pages after 'cut'.
ProjectPages(projects, cut) ==
    IF projects = <<>> THEN <<>>
    ELSE IF cut = 0 \/ cut >= Len(projects) THEN <<projects>>
    ELSE <<SubSeq(projects, 1, cut), SubSeq(projects, cut + 1, Len(projects))>>

get_v4_projects(active, library, fields, con, projects, cut) ==
    IF fields = None \/ Val(fields) = {}
    THEN [filters |-> EmptyDict, fields |-> {},
          lookups |-> ConLookups(con),
          local   |-> [path |-> "rest", active |-> active, library |-> library],
          queries |-> 0, raised |-> "",
          result  |-> get_rest_projects(projects, active, library)]
    ELSE LET pages == ProjectPages(projects, cut)
         IN  [filters |-> EmptyDict, fields |-> Val(fields),
              lookups |-> ConLookups(con),
              local   |-> [path |-> "graphql", active |-> active, library |-> library],
              queries |-> IF pages = <<>> THEN 1 ELSE Len(pages),
              raised  |-> "",
              result  |-> Flatten(pages)]

\* conversion_utils is not part of src/.
project_fields_v3_to_v4(fields) == fields
convert_v4_project_to_v3(project) == [type |-> "project", name |-> project.name, data |-> [active |-> project.active, library_project |-> project.library]]

\* entities.py 567-572: the active filter handed to get_v4_projects.
ProjectsActiveArgMut(active, inactive) ==
    IF active THEN Some(TRUE) ELSE Some(FALSE)
ProjectsActiveArg(active, inactive) ==
    IF active /\ inactive THEN None
    ELSE IF active THEN Some(TRUE)
    ELSE IF inactive THEN Some(FALSE)
    ELSE Some(active)

get_projects(active, inactive, library, fields, con, projects, cut) ==
    IF ~active /\ ~inactive THEN EmptyOutcome
    ELSE LET out == get_v4_projects(ProjectsActiveArg(active, inactive), library,
                                    project_fields_v3_to_v4(fields), TRUE,
                                    projects, cut)
         IN  [out EXCEPT !.lookups = ConLookups(con),
                         !.result = [i \in DOMAIN out.result |->
                                        convert_v4_project_to_v3(out.result[i])]]

ProjectFieldArgs == {None, Some({}), Some({"name"})}

CallV4Projects ==
    /\ pc = "idle"
    /\ \E active \in ActiveFilters, library \in ActiveFilters,
          fields \in ProjectFieldArgs, con \in BOOLEAN,
          projects \in ServerProjects, cut \in 0..(MaxProjects - 1) :
        Done("get_v4_projects",
             [active |-> active, library |-> library, fields |-> fields,
              con |-> con, server |-> projects],
             get_v4_projects(active, library, fields, con, projects, cut))

CallGetProjects ==
    /\ pc = "idle"
    /\ \E active \in BOOLEAN, inactive \in BOOLEAN, library \in ActiveFilters,
          fields \in ProjectFieldArgs, con \in BOOLEAN,
          projects \in ServerProjects, cut \in 0..(MaxProjects - 1) :
        Done("get_projects",
             [active |-> active, inactive |-> inactive, library |-> library,
              fields |-> fields, con |-> con, server |-> projects],
             get_projects(active, inactive, library, fields, con, projects, cut))

NextProjects ==
    \/ CallV4Projects
    \/ CallGetProjects
    \/ Return

SpecProjects == Init /\ [][NextProjects]_vars

(***************************************************************************)
(* _get_versions and the version functions on top of it                    *)
(***************************************************************************)
MaxVersions == 2

SubsetIds == {"s1", "s2"}
\* The server's ids: one per version of a subset, one per hero version.
VersionIdOf == [s1 |-> <<"v1", "v2">>, s2 |-> <<"v3", "v4">>]
HeroIdOf == [s1 |-> <<"h1", "h2">>, s2 |-> <<"h3", "h4">>]

StandardVersionRecs ==
    {[id |-> VersionIdOf[s][n], version |-> n, subsetId |-> s] :
        s \in SubsetIds, n \in {1, 2}}
HeroVersionRecs ==
    {[id |-> HeroIdOf[s][n], version |-> 0 - n, subsetId |-> s] :
        s \in SubsetIds, n \in {1, 2}} \ {[id |-> "h4", version |-> -2, subsetId |-> "s2"]}

\* What the server may answer to the first query and to the batch lookup.
VersionAnswers ==
    SeqsUpTo(HeroVersionRecs \cup {[id |-> "v1", version |-> 1, subsetId |-> "s1"]},
             MaxVersions)
BatchAnswers == SeqsUpTo(StandardVersionRecs, MaxVersions)

\* conversion_utils is not part of src/.
version_fields_v3_to_v4(fields) == fields
convert_v4_version_to_v3(version) == [_id |-> version.id, type |-> IF version.version < 0 THEN "hero_version" ELSE "version", name |-> version.version, parent |-> version.subsetId]

abs(n) == IF n < 0 THEN 0 - n ELSE n

RECURSIVE FirstVersionId(_, _)
\* entities.py 764-768: the id of the first version of the list with that
\* number, None when the list has none.
FirstVersionId(versions, abs_version) ==
    IF versions = <<>> THEN None
    ELSE IF Head(versions).version = abs_version THEN Some(Head(versions).id)
    ELSE FirstVersionId(Tail(versions), abs_version)

\* entities.py 757-768: hero_eq_by_subset_id.get(subset_id, []) searched
\* for the hero version's absolute number.
HeroVersionIdMut(hero_version, hero_eq_versions) ==
    FirstVersionId(hero_eq_versions, abs(hero_version.version))
HeroVersionId(hero_version, hero_eq_versions) ==
    FirstVersionId(
        SelectSeq(hero_eq_versions, LAMBDA v : v.subsetId = hero_version.subsetId),
        abs(hero_version.version))

\* entities.py 769-770: the converted hero version with its 'version_id'.
ConvertHero(hero_version, hero_eq_versions) ==
    [field \in DOMAIN convert_v4_version_to_v3(hero_version) \cup {"version_id"} |->
        IF field = "version_id"
        THEN HeroVersionId(hero_version, hero_eq_versions)
        ELSE convert_v4_version_to_v3(hero_version)[field]]

\* 'resp' answers the first query, 'batch' the lookup of the versions the
\* hero versions stand for.
_get_versions(project_name, version_ids, subset_ids, versions, hero, standard, latest, fields, con, resp, batch) ==
    LET v4_fields ==
            IF version_fields_v3_to_v4(fields) # None
                    /\ Val(version_fields_v3_to_v4(fields)) # {} /\ hero
            THEN Some(Val(version_fields_v3_to_v4(fields)) \cup {"subsetId", "version"})
            ELSE version_fields_v3_to_v4(fields)
        first == get_v4_versions(project_name, version_ids, subset_ids, versions,
                                 hero, standard, latest, v4_fields, TRUE, resp)
        queried_versions == first.result
        hero_versions == SelectSeq(queried_versions, LAMBDA v : v.version < 0)
        std_versions == SelectSeq(queried_versions, LAMBDA v : ~(v.version < 0))
        second == get_v4_versions(
                    project_name, None,
                    Some({hero_versions[i].subsetId : i \in DOMAIN hero_versions}),
                    Some({abs(hero_versions[i].version) : i \in DOMAIN hero_versions}),
                    FALSE, TRUE, None, Some({"id", "version", "subsetId"}),
                    TRUE, batch)
    IN  [filters |-> first.filters,
         fields  |-> first.fields,
         lookups |-> ConLookups(con),
         local   |-> IF hero_versions = <<>>
                     THEN [queried_versions |-> queried_versions,
                           hero_eq_versions |-> <<>>,
                           hero_filters |-> EmptyDict,
                           conv_heroes |-> <<>>]
                     ELSE [queried_versions |-> queried_versions,
                           hero_eq_versions |-> second.result,
                           hero_filters |-> second.filters,
                           conv_heroes |->
                               [i \in DOMAIN hero_versions |->
                                   ConvertHero(hero_versions[i], second.result)]],
         queries |-> first.queries
                        + (IF hero_versions = <<>> THEN 0 ELSE second.queries),
         raised  |-> "",
         result  |-> [i \in DOMAIN std_versions |->
                        convert_v4_version_to_v3(std_versions[i])]]

get_versions(project_name, version_ids, subset_ids, versions, hero, fields, con, resp, batch) ==
    _get_versions(project_name, version_ids, subset_ids, versions, hero, TRUE,
                  None, fields, con, resp, batch)

get_hero_versions(project_name, subset_ids, version_ids, fields, con, resp, batch) ==
    _get_versions(project_name, version_ids, subset_ids, None, TRUE, FALSE,
                  None, fields, con, resp, batch)

\* 'if versions: return versions[0]; return None'; the list the plural
\* function returned stays in the local 'versions'.
FirstOrNone(out) ==
    [out EXCEPT !.result = IF out.result # <<>> THEN Some(out.result[1]) ELSE None,
                !.local = ("versions" :> out.result) @@ out.local]

\* entities.py 1050-1052: 'if not versions: return versions[0]; return None'
\* reads the first element of the empty list and returns None for any other.
FirstOfEmpty(out) ==
    [out EXCEPT !.result = None,
                !.raised = IF out.result = <<>> THEN "IndexError" ELSE "",
                !.local = ("versions" :> out.result) @@ out.local]

get_version_by_id(project_name, version_id, fields, con, resp, batch) ==
    FirstOrNone(get_versions(project_name, Some({version_id}), None, None,
                             TRUE, fields, con, resp, batch))

get_last_version_by_subset_id(project_name, subset_id, fields, con, resp, batch) ==
    FirstOfEmpty(_get_versions(project_name, None, Some({subset_id}), None,
                               TRUE, TRUE, Some(TRUE), fields, con, resp, batch))

get_hero_version_by_id(project_name, version_id, fields, con, resp, batch) ==
    FirstOrNone(get_hero_versions(project_name, None, Some({version_id}),
                                  fields, con, resp, batch))

get_hero_version_by_subset_id(project_name, subset_id, fields, con, resp, batch) ==
    FirstOrNone(get_hero_versions(project_name, Some({subset_id}), None,
                                  fields, con, resp, batch))

\* The batch lookup is answered only when it is asked.
BatchAnswersTo(resp) ==
    IF \E i \in DOMAIN resp : resp[i].version < 0 THEN BatchAnswers ELSE {<<>>}

VersionIdArgs == {None, Some({}), Some({"h1"})}
SubsetIdArgs == {None, Some({"s1"})}

CallGetVersions ==
    /\ pc = "idle"
    /\ \E version_ids \in VersionIdArgs, subset_ids \in SubsetIdArgs,
          hero \in BOOLEAN, fields \in FieldArgs, resp \in VersionAnswers :
        \E batch \in BatchAnswersTo(resp) :
            Done("get_versions",
                 [project_name |-> "proj1", version_ids |-> version_ids,
                  subset_ids |-> subset_ids, hero |-> hero, fields |-> fields],
                 get_versions("proj1", version_ids, subset_ids, None, hero,
                              fields, FALSE, resp, batch))

CallGetHeroVersions ==
    /\ pc = "idle"
    /\ \E version_ids \in VersionIdArgs, subset_ids \in SubsetIdArgs,
          resp \in VersionAnswers :
        \E batch \in BatchAnswersTo(resp) :
            Done("get_hero_versions",
                 [project_name |-> "proj1", version_ids |-> version_ids,
                  subset_ids |-> subset_ids],
                 get_hero_versions("proj1", subset_ids, version_ids, None,
                                   TRUE, resp, batch))

CallGetHeroVersionById ==
    /\ pc = "idle"
    /\ \E version_id \in {"h1"}, resp \in VersionAnswers :
        \E batch \in BatchAnswersTo(resp) :
            Done("get_hero_version_by_id",
                 [project_name |-> "proj1", version_id |-> version_id],
                 get_hero_version_by_id("proj1", version_id, None, TRUE,
                                        resp, batch))

CallGetHeroVersionBySubsetId ==
    /\ pc = "idle"
    /\ \E subset_id \in SubsetIds, resp \in VersionAnswers :
        \E batch \in BatchAnswersTo(resp) :
            Done("get_hero_version_by_subset_id",
                 [project_name |-> "proj1", subset_id |-> subset_id],
                 get_hero_version_by_subset_id("proj1", subset_id, None, TRUE,
                                               resp, batch))

CallGetVersionById ==
    /\ pc = "idle"
    /\ \E version_id \in {"v1"}, resp \in VersionAnswers :
        \E batch \in BatchAnswersTo(resp) :
            Done("get_version_by_id",
                 [project_name |-> "proj1", version_id |-> version_id],
                 get_version_by_id("proj1", version_id, None, TRUE,
                                   resp, batch))

CallGetLastVersionBySubsetId ==
    /\ pc = "idle"
    /\ \E subset_id \in SubsetIds, resp \in VersionAnswers :
        \E batch \in BatchAnswersTo(resp) :
            Done("get_last_version_by_subset_id",
                 [project_name |-> "proj1", subset_id |-> subset_id],
                 get_last_version_by_subset_id("proj1", subset_id, None, TRUE,
                                               resp, batch))

NextVersions ==
    \/ CallGetVersions
    \/ CallGetHeroVersions
    \/ CallGetHeroVersionById
    \/ CallGetHeroVersionBySubsetId
    \/ CallGetVersionById
    \/ CallGetLastVersionBySubsetId
    \/ Return

SpecVersions == Init /\ [][NextVersions]_vars

(***************************************************************************)
(* _get_subsets and get_subsets                                            *)
(***************************************************************************)
MaxSubsets == 2

FolderIds == {"f1", "f2"}
SubsetNames == {"modelMain", "rigMain"}

\* Subsets as the server answers them.
SubsetRecs ==
    {[id |-> "s1", name |-> "modelMain", folderId |-> "f1", active |-> TRUE],
     [id |-> "s2", name |-> "rigMain", folderId |-> "f1", active |-> TRUE],
     [id |-> "s3", name |-> "modelMain", folderId |-> "f2", active |-> TRUE]}
SubsetAnswers == SeqsUpTo(SubsetRecs, MaxSubsets)

\* names_by_folder_ids: None, or a dict from folder ids to names; a key may
\* be empty and a folder may come with no name.
NamesByFolderIds ==
    {None, Some(EmptyDict),
     Some("f1" :> {"modelMain"}),
     Some("f1" :> {}),
     Some("" :> {"modelMain"}),
     Some(("f1" :> {"rigMain"}) @@ ("f2" :> {"modelMain"})),
     Some(("f1" :> {"modelMain", "rigMain"}) @@ ("f2" :> {}))}

\* .constants and conversion_utils are not part of src/: the default
\* subset fields, the table from the v3 field names to the v4 ones (a name
\* the table does not know is dropped) and the v3 shape of a subset.
DEFAULT_SUBSET_FIELDS == {"id", "name", "folderId", "active"}
subset_fields_v3_to_v4(fields) ==
    IF fields = None THEN None
    ELSE Some({f \in {"id", "name", "folderId"} :
                \/ f = "id" /\ "_id" \in Val(fields)
                \/ f = "name" /\ "name" \in Val(fields)
                \/ f = "folderId" /\ "parent" \in Val(fields)})
convert_v4_subset_to_v3(subset) ==
    [_id |-> subset.id, type |-> "subset", name |-> subset.name, parent |-> subset.folderId]

\* entities.py 627-639: the folder ids and names a names_by_folder_ids
\* dict stands for: the keys that are not empty and have names, and the
\* names of those keys.
MappedFolderIds(m) == {k \in DOMAIN m : k # "" /\ m[k] # {}}
MappedSubsetNames(m) == UNION {m[k] : k \in MappedFolderIds(m)}

\* entities.py 608-639: the subset names and folder ids to filter by.
SubsetNameFilters(subset_names, folder_ids, names_by_folder_ids) ==
    IF names_by_folder_ids # None
    THEN [names |-> Some(MappedSubsetNames(Val(names_by_folder_ids))),
          folder_ids |-> Some(MappedFolderIds(Val(names_by_folder_ids)))]
    ELSE [names |-> subset_names, folder_ids |-> folder_ids]

\* entities.py 641-655
SubsetFields(fields, names_by_folder_ids) ==
    (IF subset_fields_v3_to_v4(fields) # None
     THEN Val(subset_fields_v3_to_v4(fields)) \cup {"id", "active"}
     ELSE DEFAULT_SUBSET_FIELDS)
    \cup (IF names_by_folder_ids # None /\ Val(names_by_folder_ids) # EmptyDict
          THEN {"name", "folderId"} ELSE {})

\* entities.py 681-693: the subsets are grouped by folder, and for every
\* subset of a folder whose name is among the names of that folder the
\* loop appends 'subset', the variable the grouping loop has left on the
\* last subset of the answer.  Every element appended is that one subset,
\* so the order of the dict does not show in the list.
FilterByNames(subsets, m) ==
    LET allowed == {i \in DOMAIN subsets :
                        /\ subsets[i].folderId \in DOMAIN m
                        /\ subsets[i].name \in m[subsets[i].folderId]}
    IN  [k \in 1..Cardinality(allowed) |-> subsets[Len(subsets)]]

\* 'resp' is the server's answer: parsed_data["project"]["subsets"].
_get_subsets(project_name, subset_ids, subset_names, folder_ids, names_by_folder_ids, archived, fields, con, resp) ==
    LET by == SubsetNameFilters(subset_names, folder_ids, names_by_folder_ids)
        subsets == IF names_by_folder_ids # None /\ Val(names_by_folder_ids) # EmptyDict
                   THEN FilterByNames(resp, Val(names_by_folder_ids))
                   ELSE resp
    IN  IF project_name = "" THEN EmptyOutcome
        ELSE IF IsEmptyFilter(subset_ids) THEN EmptyOutcome
        ELSE IF IsEmptyFilter(subset_names) THEN EmptyOutcome
        ELSE IF IsEmptyFilter(folder_ids) THEN EmptyOutcome
        ELSE IF names_by_folder_ids # None
                /\ (Val(by.names) = {} \/ Val(by.folder_ids) = {})
        THEN EmptyOutcome
        ELSE [filters |-> ("projectName" :> project_name)
                            @@ TruthyListFilter("folderIds", by.folder_ids)
                            @@ TruthyListFilter("subsetIds", subset_ids)
                            @@ TruthyListFilter("subsetNames", by.names),
              fields  |-> SubsetFields(fields, names_by_folder_ids),
              lookups |-> ConLookups(con),
              local   |-> [subsets |-> resp],
              queries |-> 1,
              raised  |-> "",
              result  |-> [i \in DOMAIN subsets |-> convert_v4_subset_to_v3(subsets[i])]]

\* entities.py 883-902
get_subsets(project_name, subset_ids, subset_names, asset_ids, names_by_asset_ids, archived, fields, con, resp) ==
    _get_subsets(project_name, subset_ids, subset_names, asset_ids,
                 names_by_asset_ids, archived, fields, con, resp)

SubsetIdFilters == {None, Some({}), Some({"s1"})}
SubsetNameArgs == {None, Some({}), Some({"modelMain"})}
FolderIdFilters == {None, Some({}), Some({"f1"})}
SubsetFieldArgs == {None, Some({"name", "data.family"})}

CallGetSubsets ==
    /\ pc = "idle"
    /\ \E project_name \in ProjectNames, subset_ids \in SubsetIdFilters,
          subset_names \in SubsetNameArgs, asset_ids \in FolderIdFilters,
          names_by_asset_ids \in NamesByFolderIds, fields \in SubsetFieldArgs,
          con \in BOOLEAN, resp \in SubsetAnswers :
        Done("get_subsets",
             [project_name |-> project_name, subset_ids |-> subset_ids,
              subset_names |-> subset_names, asset_ids |-> asset_ids,
              names_by_asset_ids |-> names_by_asset_ids, fields |-> fields],
             get_subsets(project_name, subset_ids, subset_names, asset_ids,
                         names_by_asset_ids, FALSE, fields, con, resp))

\* entities.py 863-880: 'if subsets: return subsets[0]; return None'
get_subset_by_id(project_name, subset_id, fields, con, resp) ==
    LET out == get_subsets(project_name, Some({subset_id}), None, None, None,
                           FALSE, fields, con, resp)
    IN  [out EXCEPT !.result = IF out.result # <<>> THEN Some(out.result[1]) ELSE None]
get_subset_by_name(project_name, subset_name, asset_id, fields, con, resp) ==
    LET out == get_subsets(project_name, None, Some({subset_name}),
                           Some({asset_id}), None, FALSE, fields, con, resp)
    IN  [out EXCEPT !.result = IF out.result # <<>> THEN Some(out.result[1]) ELSE None]

\* conversion_utils is not part of src/: the table from the v3 folder
\* fields to the v4 ones, for the fields a caller names, and the v3 shape
\* of a folder.
folder_fields_v3_to_v4(fields) ==
    {f \in {"id", "name", "tasks"} :
        \/ f = "id" /\ "_id" \in fields
        \/ f = "name" /\ "name" \in fields
        \/ f = "tasks" /\ "data.tasks" \in fields}
convert_v4_folder_to_v3(folder, project_name) ==
    [_id |-> folder.id, type |-> "asset"]

\* entities.py 795-828, for a caller that names the fields; 'pages' answers
\* the paginated folders query, 'resp' the folders query with tasks.
get_assets(project_name, asset_ids, asset_names, parent_ids, archived, fields, con, pages, resp) ==
    LET active == IF archived THEN Some(FALSE) ELSE Some(TRUE)
        v4_fields == folder_fields_v3_to_v4(fields)
        folders ==
            IF "tasks" \in v4_fields
            THEN get_v4_folders_tasks(project_name, asset_ids, None, asset_names,
                                      parent_ids, active, Some(v4_fields), TRUE, resp)
            ELSE get_v4_folders(project_name, asset_ids, None, asset_names,
                                parent_ids, active, Some(v4_fields), TRUE, pages)
    IN  IF project_name = "" THEN EmptyOutcome
        ELSE [folders EXCEPT
                !.lookups = ConLookups(con),
                !.result = [i \in DOMAIN folders.result |->
                                convert_v4_folder_to_v3(folders.result[i], project_name)]]

RECURSIVE PagesRead(_)
\* The pages a generator over the active folders has asked for when it
\* yields its first folder, or when the pages end.
PagesRead(pages) ==
    IF pages = <<>> THEN 0
    ELSE IF ActiveOnly(Head(pages), Some(TRUE)) # <<>> THEN 1
    ELSE 1 + PagesRead(Tail(pages))

\* entities.py 784-792: 'for asset in assets: return asset; return None';
\* the generator is left at its first asset.
get_asset_by_name(project_name, asset_name, fields, con, pages, resp) ==
    LET out == get_assets(project_name, None, Some({asset_name}), None, FALSE,
                          fields, con, pages, resp)
    IN  [out EXCEPT
            !.result = IF out.result # <<>> THEN Some(out.result[1]) ELSE None,
            !.queries = IF out.queries = 0 \/ "tasks" \in folder_fields_v3_to_v4(fields)
                           \/ pages = <<>>
                        THEN out.queries ELSE PagesRead(pages)]

\* 'not x' of an argument that is None or a string
Falsy(opt) == opt = None \/ Val(opt) = ""

\* What get_last_version_by_subset_name has done when it returns: the
\* outcome of its last lookup, the queries of each of its three lookups and
\* the asset id and the subset it has found.
ChainOutcome(last, asset_queries, subset_queries, version_queries, asset_id, subset, con_lookups, raised_, result_) ==
    [filters |-> last.filters,
     fields  |-> last.fields,
     lookups |-> con_lookups,
     local   |-> [asset_queries |-> asset_queries,
                  subset_queries |-> subset_queries,
                  version_queries |-> version_queries,
                  asset_id |-> asset_id,
                  subset |-> subset,
                  versions |-> IF version_queries > 0 THEN last.local.versions ELSE <<>>],
     queries |-> asset_queries + subset_queries + version_queries,
     raised  |-> raised_,
     result  |-> result_]

\* entities.py 1055-1081; 'pages' answers the lookup of the asset,
\* 'subsets' that of the subset, 'resp' and 'batch' that of the version.
get_last_version_by_subset_name(project_name, subset_name, asset_id, asset_name, fields, con, pages, subsets, resp, batch) ==
    LET by_name == Falsy(asset_id)
        asset == get_asset_by_name(project_name, Val(asset_name), {"_id"}, con, pages, <<>>)
        asset_queries == IF by_name THEN asset.queries ELSE 0
        asset_lookups == IF by_name THEN asset.lookups ELSE 0
        found_id == IF by_name THEN Val(asset.result)._id ELSE Val(asset_id)
        subset == get_subset_by_name(project_name, subset_name, found_id,
                                     Some({"_id"}), con, subsets)
        version == get_last_version_by_subset_id(project_name, Val(subset.result).id,
                                                 fields, con, resp, batch)
    IN  IF Falsy(asset_id) /\ Falsy(asset_name)
        THEN ChainOutcome(EmptyOutcome, 0, 0, 0, None, None, 0, "", None)
        ELSE IF by_name /\ asset.result = None
        THEN ChainOutcome(asset, asset_queries, 0, 0, None, None, asset_lookups, "", None)
        ELSE IF subset.result = None
        THEN ChainOutcome(subset, asset_queries, subset.queries, 0, Some(found_id),
                          None, asset_lookups + subset.lookups, "", None)
        ELSE IF "id" \notin DOMAIN Val(subset.result)
        THEN ChainOutcome(subset, asset_queries, subset.queries, 0, Some(found_id),
                          subset.result, asset_lookups + subset.lookups, "KeyError", None)
        ELSE ChainOutcome(version, asset_queries, subset.queries, version.queries,
                          Some(found_id), subset.result,
                          asset_lookups + subset.lookups + version.lookups,
                          version.raised, version.result)

AssetRefs == {None, Some(""), Some("f1")}
AssetNameRefs == {None, Some(""), Some("sh010")}
\* The folders the asset lookup is answered with, page by page.
FolderPages ==
    {<<>>, <<<<[id |-> "f1", active |-> TRUE]>>>>,
     <<<<[id |-> "f2", active |-> FALSE]>>, <<[id |-> "f1", active |-> TRUE]>>>>,
     <<<<[id |-> "f1", active |-> TRUE]>>, <<[id |-> "f2", active |-> TRUE]>>>>}
LastVersionAnswers == {<<>>, <<[id |-> "v1", version |-> 1, subsetId |-> "s1"]>>}

CallGetSubsetByName ==
    /\ pc = "idle"
    /\ \E project_name \in ProjectNames, asset_id \in FolderIds,
          con \in BOOLEAN, resp \in SubsetAnswers :
        Done("get_subset_by_name",
             [project_name |-> project_name, subset_name |-> "modelMain",
              asset_id |-> asset_id],
             get_subset_by_name(project_name, "modelMain", asset_id, None, con, resp))

CallGetLastVersionBySubsetName ==
    /\ pc = "idle"
    /\ \E project_name \in ProjectNames, asset_id \in AssetRefs,
          asset_name \in AssetNameRefs, con \in BOOLEAN, pages \in FolderPages,
          subsets \in SubsetAnswers, resp \in LastVersionAnswers :
        Done("get_last_version_by_subset_name",
             [project_name |-> project_name, subset_name |-> "modelMain",
              asset_id |-> asset_id, asset_name |-> asset_name],
             get_last_version_by_subset_name(project_name, "modelMain", asset_id,
                                             asset_name, None, con, pages,
                                             subsets, resp, <<>>))

NextSubsets ==
    \/ CallGetSubsets
    \/ CallGetSubsetByName
    \/ CallGetLastVersionBySubsetName
    \/ Return

SpecSubsets == Init /\ [][NextSubsets]_vars

(***************************************************************************)
(* get_representations_parents and get_v4_representations_parents          *)
(***************************************************************************)
MaxRepres == 2

RepreIds == {"r1", "r2", "r3"}

\* A representation as the parents query answers it: its version, the
\* subset of the version and the folder of the subset nested in it.
ParentsRec(repre_id) ==
    [id |-> repre_id,
     version |-> [id |-> "v1", version |-> 1, subsetId |-> "s1",
                  subset |-> [id |-> "s1", name |-> "modelMain", folderId |-> "f1",
                              folder |-> [id |-> "f1", active |-> TRUE]]]]
ParentsAnswers == SeqsUpTo({ParentsRec(r) : r \in RepreIds}, MaxRepres)

\* The v3 representations a caller hands in.
RepreDocs == SeqsUpTo({[_id |-> r, type |-> "representation"] : r \in RepreIds}, MaxRepres)

\* get_project is answered with the project document.
ProjectDoc == [type |-> "project", name |-> "proj1"]

\* 'version = repre.pop("version")' and the pops below it.
Without(rec, key) == [k \in DOMAIN rec \ {key} |-> rec[k]]

\* entities.py 1241-1246: the tuple of one answered representation
ParentsOf(repre, project) ==
    <<Some(Without(repre.version, "subset")),
      Some(Without(repre.version.subset, "folder")),
      Some(repre.version.subset.folder),
      Some(project)>>

RECURSIVE LastPlace(_, _)
\* The last place of the answer that holds the representation, 0 for none:
\* a later entry of the answer overwrites an earlier one.
LastPlace(resp, repre_id) ==
    IF resp = <<>> THEN 0
    ELSE IF resp[Len(resp)].id = repre_id THEN Len(resp)
    ELSE LastPlace(SubSeq(resp, 1, Len(resp) - 1), repre_id)

\* entities.py 1223-1248; 'resp' is the server's answer:
\* parsed_data["project"]["representations"].  The connection handed in is
\* not used.
get_v4_representations_parents(project_name, representation_ids, con, resp, project) ==
    IF representation_ids = {} THEN [EmptyOutcome EXCEPT !.result = EmptyDict]
    ELSE [filters |-> ("projectName" :> project_name)
                        @@ ("representationIds" :> ListOf(representation_ids)),
          fields  |-> {},
          lookups |-> 1,
          local   |-> [representations |-> resp, project |-> project],
          queries |-> 1,
          raised  |-> "",
          result  |-> [repre_id \in representation_ids
                                    \cup {resp[i].id : i \in DOMAIN resp} |->
                        IF LastPlace(resp, repre_id) = 0
                        THEN <<None, None, None, None>>
                        ELSE ParentsOf(resp[LastPlace(resp, repre_id)], project)]]

\* entities.py 1197-1220.  The first loop binds 'parents' to each tuple of
\* the dict in turn and reads the id of its folder: TypeError for a tuple
\* of Nones.  After the loop 'parents' is the last tuple, and
\* 'parents.items()' raises AttributeError; only an empty dict is left
\* alone by the loop and gives the empty mapping.
get_representations_parents(project_name, representations, con, resp, project) ==
    LET repre_ids == {representations[i]._id : i \in DOMAIN representations}
        out == get_v4_representations_parents(project_name, repre_ids, FALSE, resp, project)
        parents == out.result
    IN  IF DOMAIN parents = {} THEN out
        ELSE IF \E repre_id \in DOMAIN parents : parents[repre_id][3] = None
        THEN [out EXCEPT !.raised = "TypeError", !.result = EmptyDict]
        ELSE [out EXCEPT !.raised = "AttributeError", !.result = EmptyDict]

\* entities.py 1186-1194
get_representation_parents(project_name, representation, con, resp, project) ==
    IF representation = None THEN [EmptyOutcome EXCEPT !.result = None]
    ELSE LET out == get_representations_parents(project_name, <<Val(representation)>>,
                                                FALSE, resp, project)
         IN  IF out.raised # "" THEN [out EXCEPT !.result = None]
             ELSE [out EXCEPT !.result = Some(out.result[Val(representation)._id])]

CallV4RepresentationsParents ==
    /\ pc = "idle"
    /\ \E representation_ids \in SUBSET RepreIds, con \in BOOLEAN,
          resp \in ParentsAnswers :
        Done("get_v4_representations_parents",
             [project_name |-> "proj1", representation_ids |-> representation_ids,
              con |-> con],
             get_v4_representations_parents("proj1", representation_ids, con,
                                            resp, ProjectDoc))

CallGetRepresentationsParents ==
    /\ pc = "idle"
    /\ \E representations \in RepreDocs, con \in BOOLEAN, resp \in ParentsAnswers :
        Done("get_representations_parents",
             [project_name |-> "proj1", representations |-> representations,
              con |-> con],
             get_representations_parents("proj1", representations, con, resp,
                                         ProjectDoc))

CallGetRepresentationParents ==
    /\ pc = "idle"
    /\ \E representation \in {None} \cup {Some(RepreDocs1[1]) : RepreDocs1 \in RepreDocs \ {<<>>}},
          resp \in ParentsAnswers :
        Done("get_representation_parents",
             [project_name |-> "proj1", representation |-> representation],
             get_representation_parents("proj1", representation, FALSE, resp,
                                        ProjectDoc))

NextParents ==
    \/ CallV4RepresentationsParents
    \/ CallGetRepresentationsParents
    \/ CallGetRepresentationParents
    \/ Return

SpecParents == Init /\ [][NextParents]_vars

(***************************************************************************)
(* graphql.py: fields_to_dict                                              *)
(***************************************************************************)
MaxFields == 3

\* graphql.py 5: the marker of a field that is taken with all below it; a
\* dict of the output is told from it by 'all'.
ALL_SUBFIELDS == [all |-> TRUE]
SubfieldsDict(items) == [all |-> FALSE, items |-> items]

\* graphql.py 14-25: one field, known by the parts 'field.split(".")'
\* gives, put into the dict 'value'; the walk stops without a change at a
\* part that is ALL_SUBFIELDS already.
RECURSIVE SetField(_, _)
SetFieldMut(value, hierarchy) ==
    IF Len(hierarchy) = 1
    THEN IF hierarchy[1] \in DOMAIN value.items THEN value
         ELSE SubfieldsDict((hierarchy[1] :> ALL_SUBFIELDS) @@ value.items)
    ELSE LET part == hierarchy[1]
             below == IF part \in DOMAIN value.items THEN value.items[part]
                      ELSE SubfieldsDict(EmptyDict)
         IN  IF below.all THEN value
             ELSE SubfieldsDict((part :> SetField(below, Tail(hierarchy))) @@ value.items)
SetField(value, hierarchy) ==
    IF Len(hierarchy) = 1
    THEN SubfieldsDict((hierarchy[1] :> ALL_SUBFIELDS) @@ value.items)
    ELSE LET part == hierarchy[1]
             below == IF part \in DOMAIN value.items THEN value.items[part]
                      ELSE SubfieldsDict(EmptyDict)
         IN  IF below.all THEN value
             ELSE SubfieldsDict((part :> SetField(below, Tail(hierarchy))) @@ value.items)

RECURSIVE SetFields(_, _)
\* 'for field in fields', in the order the fields come
SetFields(output, fields) ==
    IF fields = <<>> THEN output
    ELSE SetFields(SetField(output, Head(fields)), Tail(fields))

\* graphql.py 8-27; 'fields' is None or the fields in the order their
\* iteration gives them.
fields_to_dict_mut(fields) ==
    IF fields = None \/ Val(fields) = <<>> THEN None
    ELSE Some(SetFields(SubfieldsDict(EmptyDict), <<Val(fields)[1]>>))
fields_to_dict(fields) ==
    IF fields = None \/ Val(fields) = <<>> THEN None
    ELSE Some(SetFields(SubfieldsDict(EmptyDict), Val(fields)))

\* The dotted paths a caller names, each by its parts.
FieldPaths ==
    {<<"id">>, <<"data">>, <<"data", "tasks">>, <<"data", "tasks", "name">>,
     <<"data", "family">>}

CallFieldsToDict ==
    /\ pc = "idle"
    /\ \E fields \in {None} \cup {Some(fs) : fs \in SeqsUpTo(FieldPaths, MaxFields)} :
        Done("fields_to_dict", [fields |-> fields],
             [EmptyOutcome EXCEPT !.result = fields_to_dict(fields)])

NextFields ==
    \/ CallFieldsToDict
    \/ Return

SpecFields == Init /\ [][NextFields]_vars

(***************************************************************************)
(* Building and rendering a query                                          *)
(***************************************************************************)
FieldNames == <<"project", "folders", "id", "name", "tasks">>
Parents == {TheQuery} \cup DOMAIN query.nodes

\* The caller sets filters on the first field it has created.
FilteredFields == {1}

RECURSIVE SumLen(_)
SumLen(seqs) == IF seqs = <<>> THEN 0 ELSE Len(Head(seqs)) + SumLen(Tail(seqs))

\* How many times a field was attached beyond the attachment of its
\* creation: every add_field leaves one entry in one children list.
Reattached ==
    Len(query.children) + SumLen([i \in DOMAIN query.nodes |-> query.nodes[i].children])
        - Len(query.nodes)

VariableKeys == <<"projectName", "versionId", "folderIds">>
\* The types the callers declare: the str type, and the text "String!".
VariableTypes == {"<class 'str'>", "String!"}

FilterValues ==
    {[kind |-> "variable", text |-> "projectName"],
     [kind |-> "str", text |-> "proj1"],
     [kind |-> "list", items |-> <<"a", "b">>]}

\* A change of the query leaves the last rendering behind.
Built(q) ==
    /\ query' = q
    /\ fn' = ""
    /\ raised' = ""
    /\ result' = <<>>
    /\ UNCHANGED <<pc, args, bound, qfields, lookups, queries, local>>

AddField ==
    /\ Len(query.nodes) < MaxNodes
    /\ \E parent \in Parents, has_edges \in BOOLEAN :
        Built(add_field(query, parent, FieldNames[Len(query.nodes) + 1], has_edges))

AddObjField ==
    /\ Reattached < MaxReattach
    /\ \E parent \in Parents, field \in DOMAIN query.nodes :
           /\ add_obj_field(query, parent, field) # query
           /\ Built(add_obj_field(query, parent, field))

SetParent ==
    /\ Reattached < MaxReattach
    /\ \E parent \in Parents, field \in DOMAIN query.nodes :
           /\ set_parent(query, field, parent) # query
           /\ Built(set_parent(query, field, parent))

AddVariable ==
    \E k \in 1..MaxVariables, type \in VariableTypes :
        /\ k <= Len(query.variables) + 1
        /\ add_variable(query, VariableKeys[k], type, None) # query
        /\ Built(add_variable(query, VariableKeys[k], type, None))

SetFilter ==
    \E field \in DOMAIN query.nodes \cap FilteredFields, key \in {"name"}, value \in FilterValues :
        /\ filter(query, field, key, value) # query
        /\ Built(filter(query, field, key, value))

CalculateQuery ==
    /\ fn = ""
    /\ fn' = "calculate_query"
    /\ raised' = calculate_query(query).raised
    /\ result' = calculate_query(query).text
    /\ UNCHANGED <<pc, args, bound, qfields, lookups, queries, local, query>>

NextQuery ==
    \/ AddField
    \/ AddObjField
    \/ SetParent
    \/ AddVariable
    \/ SetFilter
    \/ CalculateQuery

SpecQuery == Init /\ [][NextQuery]_vars

(***************************************************************************)
(* continuous_query: the walk over the pages of an answer                  *)
(*                                                                         *)
(* entities.py 63 and 204 iterate 'query.continuous_query(con)'; the       *)
(* method itself is not among the sources. The walk below follows its      *)
(* description (section 4.2, and the section on concurrency): the query is *)
(* executed again while the response carries a cursor of a next page, the  *)
(* cursor goes back in as a variable, and every call walks on its own.     *)
(* 'local' holds the walks that were started, in the order of the calls.   *)
(***************************************************************************)
MaxPages == 2
MaxWalks == 2
PageData == {"p", "q"}

\* What a server holds for the query: the pages in its order, one at least
\* (an empty answer is one page without records).
ServerPages == SeqsUpTo(PageData, MaxPages) \ {<<>>}

\* The response envelope to the query sent with the variable 'after': the
\* page behind the cursor, whether one follows, and the cursor that ends it.
Response(pages, after) ==
    LET k == IF after = None THEN 1 ELSE Val(after) + 1
    IN  [data |-> pages[k], hasNextPage |-> k < Len(pages), endCursor |-> Some(k)]

\* continuous_query(con): the walk before its first page. 'sent' is what the
\* connection has received of it, 'yielded' what the caller has.
continuous_query(pages) ==
    [pages |-> pages, after |-> None, exhausted |-> FALSE,
     sent |-> <<>>, yielded |-> <<>>]

\* One round of the walk: execute with the cursor, yield the decoded page,
\* keep the cursor of the next page if the response has one.
next_page_mut(walk) ==
    LET response == Response(walk.pages, walk.after)
    IN  [walk EXCEPT !.sent = Append(@, walk.after),
                     !.yielded = Append(@, response.data),
                     !.exhausted = TRUE]
next_page(walk) ==
    LET response == Response(walk.pages, walk.after)
    IN  [walk EXCEPT !.sent = Append(@, walk.after),
                     !.yielded = Append(@, response.data),
                     !.after = IF response.hasNextPage THEN response.endCursor ELSE @,
                     !.exhausted = ~response.hasNextPage]

\* A caller starts to iterate 'query.continuous_query(con)'.
StartWalk ==
    /\ pc \in {"idle", "paging"}
    /\ Len(local) < MaxWalks
    /\ \E pages \in ServerPages :
        local' = Append(local, continuous_query(pages))
    /\ pc' = "paging"
    /\ fn' = "continuous_query"
    /\ UNCHANGED <<args, bound, qfields, lookups, queries, raised, result, query>>

\* The caller of one of the walks asks for its next page.
NextPage ==
    /\ pc = "paging"
    /\ \E c \in DOMAIN local :
        /\ ~local[c].exhausted
        /\ local' = [local EXCEPT ![c] = next_page(@)]
    /\ queries' = queries + 1
    /\ UNCHANGED <<pc, fn, args, bound, qfields, lookups, raised, result, query>>

NextPages ==
    \/ StartWalk
    \/ NextPage

SpecPages == Init /\ [][NextPages]_vars

(***************************************************************************)
(* abstract_template_loader.py: AbstractTemplateLoader.populate_template   *)
(*                                                                         *)
(* A call is given the nodes of the template in the order                  *)
(* get_template_nodes returns them, each with its 'order', whether it is a *)
(* valid placeholder and the representation documents                      *)
(* get_placeholder_representations yields for it, and the ignored ids.     *)
(* preload, load, load_succeed, load_failed and postload are the hooks of  *)
(* the host; the call leaves the hooks it ran, in order, in local.events.  *)
(***************************************************************************)
MaxPlaceholders == 2
MaxDocs == 2
MaxOrder == 2

\* A representation document: an empty one, or one with its id and whether
\* the loader raises on it.
EmptyDoc == [id |-> "", raises |-> FALSE]
TemplateDocs ==
    {EmptyDoc, [id |-> "r1", raises |-> FALSE], [id |-> "r1", raises |-> TRUE],
     [id |-> "r2", raises |-> FALSE]}

TemplateNodes ==
    [order : 1..MaxOrder, valid : BOOLEAN, docs : SeqsUpTo(TemplateDocs, MaxDocs)]

IgnoredIds == {None, Some({"r1"})}

\* abstract_template_loader.py 233-235: in
\* '"...".format([placeholder.name] for placeholder in placeholders])' the
\* last ']' closes the parenthesis of format(. The file does not compile:
\* its import raises SyntaxError, and no class or function of it exists.
ModuleCompiles == FALSE

\* abstract_template_loader.py 428-438
order(placeholder) == placeholder.order

RECURSIVE SortedByOrder(_, _)
\* sorted(valid_placeholders, key=placeholder_class.order): ascending, the
\* placeholders of one order in the order they had. 'done' is sorted.
SortedByOrder(done, todo) ==
    IF todo = <<>> THEN done
    ELSE LET p == Head(todo)
             before == SelectSeq(done, LAMBDA d : order(d) <= order(p))
             after == SelectSeq(done, LAMBDA d : order(d) > order(p))
         IN  SortedByOrder(before \o <<p>> \o after, Tail(todo))

\* abstract_template_loader.py 334-340; a placeholder keeps the place of its
\* node in the template as its name.
get_placeholders(nodes) ==
    LET placeholders == [i \in DOMAIN nodes |->
                            [name |-> i, order |-> nodes[i].order,
                             valid |-> nodes[i].valid, docs |-> nodes[i].docs]]
        valid_placeholders == SelectSeq(placeholders, LAMBDA p : p.valid)
    IN  SortedByOrder(<<>>, valid_placeholders)

\* abstract_template_loader.py 294-302
load_data_is_incorrect(last_representation, ignored_ids) ==
    IF last_representation = EmptyDoc THEN TRUE
    ELSE last_representation.id \in ignored_ids

Hook(name, placeholder, doc) == [hook |-> name, placeholder |-> placeholder, doc |-> doc]

\* abstract_template_loader.py 259-277: one representation, the k-th of
\* the placeholder.
LoadRepresentation(placeholder, k, ignored_ids) ==
    LET representation == placeholder.docs[k]
    IN  <<Hook("preload", placeholder.name, k)>>
        \o (IF load_data_is_incorrect(representation, ignored_ids) THEN <<>>
            ELSE <<Hook("load", placeholder.name, k)>>
                 \o (IF representation.raises
                     THEN <<Hook("load_failed", placeholder.name, k)>>
                     ELSE <<Hook("load_succeed", placeholder.name, k)>>)
                 \o <<Hook("postload", placeholder.name, k)>>)

\* abstract_template_loader.py 236-277: the loop over the placeholders and
\* their representations.
PopulateLoop(placeholders, ignored_ids) ==
    Flatten([i \in DOMAIN placeholders |->
                Flatten([k \in DOMAIN placeholders[i].docs |->
                            LoadRepresentation(placeholders[i], k, ignored_ids)])])

\* abstract_template_loader.py 218-278, as its text reads
PopulateTemplateBody(nodes, ignored_ids) ==
    PopulateLoop(get_placeholders(nodes),
                 IF ignored_ids = None THEN {} ELSE Val(ignored_ids))

\* The call of populate_template of a loader of the host: the module is
\* imported first.
populate_template(nodes, ignored_ids) ==
    IF ~ModuleCompiles
    THEN [EmptyOutcome EXCEPT !.raised = "SyntaxError", !.local = [events |-> <<>>]]
    ELSE [EmptyOutcome EXCEPT
            !.local = [events |-> PopulateTemplateBody(nodes, ignored_ids)]]

CallPopulateTemplate ==
    /\ pc = "idle"
    /\ \E nodes \in SeqsUpTo(TemplateNodes, MaxPlaceholders), ignored_ids \in IgnoredIds :
        Done("populate_template", [nodes |-> nodes, ignored_ids |-> ignored_ids],
             populate_template(nodes, ignored_ids))

NextTemplate ==
    \/ CallPopulateTemplate
    \/ Return

SpecTemplate == Init /\ [][NextTemplate]_vars

(***************************************************************************)
(* Claims about the v4 query functions (under Spec)                        *)
(***************************************************************************)
V4Functions ==
    {"get_v4_folders", "get_v4_tasks", "get_v4_folders_tasks",
     "get_v4_versions", "get_v4_representations"}

\* The iterable filter arguments of each function, each with the query
\* variable it is bound to.
FilterVariable(f) ==
    IF f \in {"get_v4_folders", "get_v4_folders_tasks"}
    THEN [folder_ids |-> "folderIds", folder_paths |-> "folderPaths",
          folder_names |-> "folderNames", parent_ids |-> "parentFolderIds"]
    ELSE IF f = "get_v4_tasks"
    THEN [task_ids |-> "taskIds", task_names |-> "taskNames",
          task_types |-> "taskTypes", folder_ids |-> "folderIds"]
    ELSE IF f = "get_v4_versions"
    THEN [version_ids |-> "versionIds", subset_ids |-> "subsetIds",
          versions |-> "versions"]
    ELSE [representation_ids |-> "representationIds",
          representation_names |-> "representationNames",
          version_ids |-> "versionIds"]

\* A mapping's keys, and the names found under any of them.
KeysOf(m) == DOMAIN m
NamesOf(m) == {n \in RepNames : \E k \in DOMAIN m : n \in m[k]}

Returned == pc = "done" /\ fn \in V4Functions
NothingAsked == result = <<>> /\ queries = 0 /\ raised = ""
HasMapping == fn = "get_v4_representations" /\ args.names_by_version_ids # None
EmptyMapping ==
    fn = "get_v4_representations"
        /\ args.names_by_version_ids # None
        /\ KeysOf(Val(args.names_by_version_ids)) = {}

\* C1 as claimed: whichever iterable filter argument of a v4 query function
\* is an empty iterable, the function returns an empty collection and the
\* connection is never asked.
C1_EveryEmptyFilterStops ==
    Returned =>
        /\ \A a \in DOMAIN FilterVariable(fn) :
                args[a] = Some({}) => NothingAsked
        /\ EmptyMapping => NothingAsked

\* C1 as amended: an empty iterable filter argument makes the function
\* return an empty collection without asking the connection, except that
\* get_v4_representations does not read representation_names and
\* version_ids when names_by_version_ids is given: then it stops exactly
\* when representation_ids is empty or the mapping has no version id or no
\* name.
C1_EmptyFilterStops ==
    Returned =>
        /\ \A a \in DOMAIN FilterVariable(fn) :
                (/\ args[a] = Some({})
                 /\ ~(HasMapping /\ a \in {"representation_names", "version_ids"}))
                    => NothingAsked
        /\ EmptyMapping => NothingAsked
        /\ HasMapping =>
                (queries = 0 <=>
                    \/ args.representation_ids = Some({})
                    \/ KeysOf(Val(args.names_by_version_ids)) = {}
                    \/ NamesOf(Val(args.names_by_version_ids)) = {})

\* C1's case: one filter is empty, another one is not, nothing was asked.
C1_Witness ==
    /\ pc = "done"
    /\ fn = "get_v4_tasks"
    /\ args.project_name = "proj1"
    /\ args.task_names = Some({})
    /\ args.task_ids = Some({"id1"})
    /\ NothingAsked
    /\ bound = EmptyDict

ModeFlags == {"heroOnly", "heroOrLatestOnly", "latestOnly"}

\* C2 as claimed: a filter argument passed as None leaves its variable
\* unbound, and the bound names are exactly projectName, the variables of
\* the arguments that are not None and, for versions, the one mode flag.
C2_NoneBindsNothing ==
    (Returned /\ queries > 0) =>
        LET fv == FilterVariable(fn)
        IN  /\ \A a \in DOMAIN fv : args[a] = None => fv[a] \notin DOMAIN bound
            /\ DOMAIN bound \ ModeFlags =
                    {"projectName"} \cup {fv[a] : a \in {b \in DOMAIN fv : args[b] # None}}
            /\ Cardinality(DOMAIN bound \cap ModeFlags) <= 1
            /\ fn # "get_v4_versions" => DOMAIN bound \cap ModeFlags = {}

\* C2 as amended: the bound names are exactly projectName, the variables of
\* the arguments that are not None, where names_by_version_ids is the
\* argument of both versionIds and representationNames, and for versions
\* the one mode flag; so a filter argument passed as None leaves its
\* variable unbound unless it is version_ids or representation_names of
\* get_v4_representations called with names_by_version_ids.
C2_BoundNames ==
    (Returned /\ queries > 0) =>
        LET fv == FilterVariable(fn)
            of_mapping ==
                IF HasMapping THEN {"versionIds", "representationNames"} ELSE {}
        IN  /\ \A a \in DOMAIN fv :
                    (args[a] = None /\ fv[a] \notin of_mapping)
                        => fv[a] \notin DOMAIN bound
            /\ DOMAIN bound \ ModeFlags =
                    {"projectName"} \cup of_mapping
                        \cup {fv[a] : a \in {b \in DOMAIN fv : args[b] # None}}
            /\ Cardinality(DOMAIN bound \cap ModeFlags) <= 1
            /\ fn # "get_v4_versions" => DOMAIN bound \cap ModeFlags = {}

\* C2's case: a query went out with one filter given and the others None.
C2_Witness ==
    /\ pc = "done"
    /\ fn = "get_v4_folders"
    /\ queries > 0
    /\ args.folder_ids = Some({"id1"})
    /\ args.folder_paths = None
    /\ args.folder_names = None
    /\ args.parent_ids = None
    /\ DOMAIN bound = {"projectName", "folderIds"}

ParentsBound ==
    /\ pc = "done"
    /\ fn \in {"get_v4_folders", "get_v4_folders_tasks"}
    /\ "parentFolderIds" \in DOMAIN bound

\* C3 as claimed: the bound parentFolderIds holds "root" exactly when the
\* caller's parent_ids held None or the project name; it holds neither None
\* nor the project name; every other id is carried over, once.
C3_RootIffNoneOrProject ==
    ParentsBound =>
        LET given == Val(args.parent_ids)
            sent == bound["parentFolderIds"]
        IN  /\ "root" \in Range(sent)
                <=> (PyNone \in given \/ args.project_name \in given)
            /\ PyNone \notin Range(sent)
            /\ args.project_name \notin Range(sent)
            /\ Range(sent) \ {"root"} = given \ {PyNone, args.project_name, "root"}
            /\ Len(sent) = Cardinality(Range(sent))

\* C3 as amended (for a project that is not itself named "root"): the bound
\* parentFolderIds holds "root" exactly when the caller's parent_ids held
\* None, the project name or "root" itself; it holds neither None nor the
\* project name; every other id is carried over, once.
C3_RootIffNoneProjectOrRoot ==
    ParentsBound =>
        LET given == Val(args.parent_ids)
            sent == bound["parentFolderIds"]
        IN  /\ "root" \in Range(sent)
                <=> (PyNone \in given \/ args.project_name \in given
                        \/ "root" \in given)
            /\ PyNone \notin Range(sent)
            /\ args.project_name \notin Range(sent)
            /\ Range(sent) \ {"root"} = given \ {PyNone, args.project_name, "root"}
            /\ Len(sent) = Cardinality(Range(sent))

\* C3's case: None, the project name and an ordinary id were passed.
C3_Witness ==
    /\ ParentsBound
    /\ Val(args.parent_ids) = {PyNone, "proj1", "id1"}
    /\ Range(bound["parentFolderIds"]) = {"root", "id1"}

MappingOnly ==
    /\ pc = "done"
    /\ fn = "get_representations"
    /\ args.names_by_version_ids # None
    /\ args.representation_names = None
    /\ args.version_ids = None
    /\ args.representation_ids = None
    /\ args.context_filters = None
    /\ ~args.archived /\ args.standard

MappingBound(m) ==
    /\ DOMAIN bound = {"projectName", "versionIds", "representationNames"}
    /\ Range(bound["versionIds"]) = KeysOf(m)
    /\ Range(bound["representationNames"]) = NamesOf(m)

\* C9 as claimed: get_representations called with only a
\* names_by_version_ids mapping binds versionIds to the mapping's keys and
\* representationNames to the union of its names, and no other filter.
C9_MappingBinds ==
    MappingOnly => MappingBound(Val(args.names_by_version_ids))

\* C9 as amended: so it does when the mapping has at least one key and at
\* least one name in all; with an empty mapping, or one whose name
\* collections are all empty, it returns an empty list, binds nothing and
\* asks nothing.
C9_NonEmptyMappingBinds ==
    MappingOnly =>
        LET m == Val(args.names_by_version_ids)
        IN  IF KeysOf(m) # {} /\ NamesOf(m) # {}
            THEN MappingBound(m) /\ queries = 1 /\ bound["projectName"] = "proj1"
            ELSE bound = EmptyDict /\ NothingAsked

\* C9's case: the mapping {"id1": ["main"]} alone.
C9_Witness ==
    /\ MappingOnly
    /\ KeysOf(Val(args.names_by_version_ids)) = {"id1"}
    /\ NamesOf(Val(args.names_by_version_ids)) = {"main"}
    /\ Range(bound["versionIds"]) = {"id1"}
    /\ Range(bound["representationNames"]) = {"main"}

\* C10 as claimed: with names_by_version_ids given, representation_names,
\* version_ids and representation_ids change neither the bound filters nor
\* whether get_v4_representations stops early: both follow from the
\* mapping alone.
C10_MappingDiscardsOthers ==
    (pc = "done" /\ HasMapping) =>
        LET m == Val(args.names_by_version_ids)
        IN  IF KeysOf(m) # {} /\ NamesOf(m) # {}
            THEN queries = 1 /\ MappingBound(m)
            ELSE queries = 0 /\ bound = EmptyDict

\* C11: get_v4_versions binds at most one of heroOnly, heroOrLatestOnly and
\* latestOnly; on the query it executes it binds the one chosen by the
\* priority hero and not standard -> heroOnly, else hero and latest ->
\* heroOrLatestOnly, else latest -> latestOnly, else none; with hero and
\* standard both false it returns an empty result and executes no query.
C11_ModePriority ==
    (pc = "done" /\ fn = "get_v4_versions") =>
        LET flags == DOMAIN bound \cap ModeFlags
            latest == args.latest = Some(TRUE)
            expected ==
                IF args.hero /\ ~args.standard THEN {"heroOnly"}
                ELSE IF args.hero /\ latest THEN {"heroOrLatestOnly"}
                ELSE IF latest THEN {"latestOnly"}
                ELSE {}
        IN  /\ Cardinality(flags) <= 1
            /\ \A f \in flags : bound[f] = TRUE
            /\ queries = 1 => flags = expected
            /\ (~args.hero /\ ~args.standard) => NothingAsked

\* hero, standard and latest all set: heroOrLatestOnly alone is bound.
C11_Witness ==
    /\ pc = "done"
    /\ fn = "get_v4_versions"
    /\ args.hero /\ args.standard /\ args.latest = Some(TRUE)
    /\ queries = 1
    /\ DOMAIN bound \cap ModeFlags = {"heroOrLatestOnly"}

\* hero and latest set without standard: heroOnly wins over heroOrLatestOnly.
C11_WitnessHeroOnly ==
    /\ pc = "done"
    /\ fn = "get_v4_versions"
    /\ args.hero /\ ~args.standard /\ args.latest = Some(TRUE)
    /\ queries = 1
    /\ DOMAIN bound \cap ModeFlags = {"heroOnly"}

RepresentationsReturned == pc = "done" /\ fn = "get_representations"

\* C14: get_representations called with context_filters fails before any
\* field conversion, connection lookup or query, whatever the other
\* arguments are, archived and standard both false among them.
C14_ContextFiltersFail ==
    (RepresentationsReturned /\ args.context_filters # None) =>
        /\ raised = "ValueError"
        /\ result = <<>>
        /\ qfields = {}
        /\ bound = EmptyDict
        /\ lookups = 0
        /\ queries = 0

\* context_filters given while archived and standard are both false.
C14_Witness ==
    /\ RepresentationsReturned
    /\ args.context_filters # None
    /\ ~args.archived /\ ~args.standard
    /\ raised = "ValueError"

\* C15: get_representations returns an empty list and executes no query
\* when archived and standard are both false; otherwise it calls
\* get_v4_representations with active False for archived only, True for
\* standard only and None for both.
C15_ActiveOfArchivedStandard ==
    (RepresentationsReturned /\ args.context_filters = None) =>
        IF ~args.archived /\ ~args.standard
        THEN NothingAsked /\ local = EmptyDict
        ELSE local.active =
                IF args.archived /\ args.standard THEN None
                ELSE IF args.archived THEN Some(FALSE)
                ELSE Some(TRUE)

\* archived and standard both set: the query runs with no active filter.
C15_Witness ==
    /\ RepresentationsReturned
    /\ args.context_filters = None
    /\ args.archived /\ args.standard
    /\ local.active = None
    /\ queries = 1

\* C16: get_v4_representations returns every representation of the
\* server's answer when active is None, and exactly those whose 'active'
\* equals the requested value when active is True or False.
C16_ActiveFilter ==
    (pc = "done" /\ fn = "get_v4_representations" /\ queries = 1) =>
        /\ raised = ""
        /\ result =
            IF args.active = None THEN local.representations
            ELSE SelectSeq(local.representations,
                           LAMBDA repre : repre.active = Val(args.active))

\* C23: the field set get_v4_folders hands to the query builder is the
\* caller's fields when the caller names any, the default folder fields
\* when it names none, and 'active' added to them exactly when the active
\* argument is not None; no other field is added or removed.
C23_FolderFields ==
    (pc = "done" /\ fn = "get_v4_folders" /\ queries > 0) =>
        LET asked == IF args.fields \in {None, Some({})}
                     THEN {"id", "name", "path", "parentId", "active"}
                     ELSE Val(args.fields)
        IN  /\ args.active = None => qfields = asked
            /\ args.active # None => qfields = asked \cup {"active"}

\* The caller names id and name and asks for no active filter: 'active'
\* is not queried.
C23_Witness ==
    /\ pc = "done"
    /\ fn = "get_v4_folders"
    /\ queries > 0
    /\ args.fields = Some({"id", "name"})
    /\ args.active = None
    /\ args.parent_ids = Some({PyNone})
    /\ qfields = {"id", "name"}

RECURSIVE InPageOrder(_)
\* The records of the answer: page after page, each page in its order.
InPageOrder(pages) ==
    IF pages = <<>> THEN <<>>
    ELSE pages[1] \o InPageOrder(SubSeq(pages, 2, Len(pages)))

ProjectsReturned == pc = "done" /\ fn = "get_projects"

\* C7: get_projects with both flags false returns nothing and neither
\* looks up a connection nor asks it anything; otherwise get_v4_projects is
\* called with active None for both flags true, True for active alone and
\* False for inactive alone.
C7_ActiveInactive ==
    ProjectsReturned =>
        IF ~args.active /\ ~args.inactive
        THEN /\ result = <<>>
             /\ lookups = 0
             /\ queries = 0
             /\ local = EmptyDict
        ELSE /\ local.active =
                    (IF args.active /\ args.inactive THEN None
                     ELSE IF args.active THEN Some(TRUE) ELSE Some(FALSE))
             /\ local.library = args.library

\* C7's cases: both flags false against a server that holds projects, and
\* inactive alone.
C7_Witness ==
    /\ ProjectsReturned
    /\ args.server # <<>>
    /\ \/ ~args.active /\ ~args.inactive /\ result = <<>> /\ lookups = 0
       \/ ~args.active /\ args.inactive /\ local.active = Some(FALSE)

\* C8 as claimed: get_v4_projects with active True or False yields only
\* projects in that state, and with library not None only projects that
\* match it, with and without explicit fields.
C8_ProjectsFiltered ==
    (pc = "done" /\ fn = "get_v4_projects") =>
        \A i \in DOMAIN result :
            /\ args.active # None => result[i].active = Val(args.active)
            /\ args.library # None => result[i].library = Val(args.library)

(***************************************************************************)
(* Claims about the version functions (under SpecVersions)                 *)
(***************************************************************************)
VersionFunctions ==
    {"get_versions", "get_hero_versions", "get_hero_version_by_id",
     "get_hero_version_by_subset_id"}
VersionsReturned == pc = "done" /\ fn \in VersionFunctions

\* The hero versions among what the server answered, in its order.
HeroesAnswered == SelectSeq(local.queried_versions, LAMBDA v : v.version < 0)

\* The versions of the batch lookup that a hero version stands for.
BackingVersions(hero_version) ==
    {i \in DOMAIN local.hero_eq_versions :
        /\ local.hero_eq_versions[i].subsetId = hero_version.subsetId
        /\ local.hero_eq_versions[i].version = 0 - hero_version.version}

\* C5: every hero version of the first lookup is converted, and the
\* converted record's 'version_id' is the id of the version of the batch
\* lookup with the same subsetId and the hero's absolute number, None when
\* the batch holds none.
C5_HeroVersionId ==
    VersionsReturned =>
        /\ Len(local.conv_heroes) = Len(HeroesAnswered)
        /\ \A k \in DOMAIN HeroesAnswered :
            LET backing == BackingVersions(HeroesAnswered[k])
                conv == local.conv_heroes[k]
            IN  /\ conv._id = HeroesAnswered[k].id
                /\ IF backing = {}
                   THEN conv.version_id = None
                   ELSE \E i \in backing :
                            conv.version_id = Some(local.hero_eq_versions[i].id)

\* C5's case: a hero version whose backing version comes second in the
\* batch, behind a version of the same number of another subset.
C5_Witness ==
    /\ VersionsReturned
    /\ Len(local.conv_heroes) > 0
    /\ Len(local.hero_eq_versions) = 2
    /\ BackingVersions(HeroesAnswered[1]) = {2}
    /\ local.hero_eq_versions[1].version = local.hero_eq_versions[2].version
    /\ local.conv_heroes[1].version_id = Some(local.hero_eq_versions[2].id)

\* C6 as claimed: every hero version the server answered is in the
\* returned list, converted and with its 'version_id'; so get_hero_versions
\* is not empty when the server answered a hero version, and the two
\* single-result functions return that record, not None.
C6_HeroesReturned ==
    (VersionsReturned /\ (fn = "get_versions" => args.hero)) =>
        IF fn \in {"get_versions", "get_hero_versions"}
        THEN \A k \in DOMAIN HeroesAnswered :
                \E i \in DOMAIN result :
                    /\ result[i]._id = HeroesAnswered[k].id
                    /\ "version_id" \in DOMAIN result[i]
        ELSE HeroesAnswered # <<>> => result # None


(***************************************************************************)
(* Claims about the query builder (under SpecQuery)                        *)
(***************************************************************************)
Rendered == fn = "calculate_query"

RECURSIVE ReachedIn(_, _)
\* The fields met within n steps down the children lists from the fields S.
ReachedIn(S, n) ==
    IF n = 0 THEN S
    ELSE ReachedIn(S \cup UNION {Range(query.nodes[f].children) : f \in S}, n - 1)

InTree == ReachedIn(Range(query.children), Len(query.nodes))

EdgesWithoutChildren ==
    {f \in InTree : query.nodes[f].has_edges /\ query.nodes[f].children = <<>>}

\* C4: calculate_query raises, and gives no query text, whenever the query
\* has no child field or some field of its tree has the has-edges flag and
\* no children; with a child on the query and on every has-edges field it
\* does not raise the error of a missing field.
C4_MissingFieldsRaise ==
    Rendered =>
        IF query.children = <<>> \/ EdgesWithoutChildren # {}
        THEN raised # "" /\ result = ""
        ELSE raised # "ValueError"

\* A has-edges field without children, nested below a field of the query,
\* makes the rendering fail.
C4_Witness ==
    /\ Rendered
    /\ \E f \in EdgesWithoutChildren : query.nodes[f].parent # TheQuery
    /\ raised = "ValueError"
    /\ result = ""

\* A query whose has-edges field has a child renders.
C4_WitnessRenders ==
    /\ Rendered
    /\ \E f \in InTree : query.nodes[f].has_edges /\ query.nodes[f].children # <<>>
    /\ EdgesWithoutChildren = {}
    /\ raised = ""
    /\ result # ""


\* The children of a parent as a set, read from the query itself.
Listed(parent) ==
    IF parent = TheQuery THEN {query.children[i] : i \in DOMAIN query.children}
    ELSE {query.nodes[parent].children[i] : i \in DOMAIN query.nodes[parent].children}

\* C19: after any add_field, add_obj_field and set_parent calls a field is
\* among the children of a field or of the query exactly when that is the
\* parent it refers to, so that no field is listed below two parents.
C19_OneParent ==
    \A field \in DOMAIN query.nodes : \A parent \in Parents :
        field \in Listed(parent) <=> query.nodes[field].parent = parent

\* As long as no field is attached a second time, every field has the one
\* parent that lists it.
OneParentUntilReattached == Reattached = 0 => C19_OneParent

\* How often a field occurs among the children of a parent of the query q.
Occurrences(q, parent, field) ==
    LET children == IF parent = TheQuery THEN q.children ELSE q.nodes[parent].children
    IN  Cardinality({i \in DOMAIN children : children[i] = field})

IsPrefix(s, t) == Len(s) <= Len(t) /\ SubSeq(t, 1, Len(s)) = s

\* C20: attaching a field to a parent that lists it already leaves the
\* children of that parent as they are; a first attachment puts the field
\* once at the end and a second one changes nothing more; add_field puts
\* exactly one new field at the end of the children.
C20_AttachOnce ==
    \A parent \in Parents :
        /\ \A field \in DOMAIN query.nodes :
            LET once == add_obj_field(query, parent, field)
                twice == add_obj_field(once, parent, field)
                before == IF parent = TheQuery THEN query.children
                          ELSE query.nodes[parent].children
                after == IF parent = TheQuery THEN once.children
                         ELSE once.nodes[parent].children
                again == IF parent = TheQuery THEN twice.children
                         ELSE twice.nodes[parent].children
            IN  /\ Occurrences(query, parent, field) <= 1
                /\ Occurrences(once, parent, field) = 1
                /\ IsPrefix(before, after)
                /\ Len(after) = Len(before) + (1 - Occurrences(query, parent, field))
                /\ again = after
        /\ \A has_edges \in BOOLEAN :
            LET added == add_field(query, parent, "name", has_edges)
                before == IF parent = TheQuery THEN query.children
                          ELSE query.nodes[parent].children
                after == IF parent = TheQuery THEN added.children
                         ELSE added.nodes[parent].children
            IN  /\ Len(added.nodes) = Len(query.nodes) + 1
                /\ after = before \o <<Len(added.nodes)>>
                /\ \A other \in Parents \ {parent} :
                        (IF other = TheQuery THEN added.children
                         ELSE added.nodes[other].children)
                        = (IF other = TheQuery THEN query.children
                           ELSE query.nodes[other].children)

\* A field was attached to a second parent, which lists it once; the
\* parent it was created below lists it too.
C20_Witness ==
    /\ Reattached = 1
    /\ \E field \in DOMAIN query.nodes : \E parent \in Parents :
        /\ query.nodes[field].parent = parent
        /\ Occurrences(query, parent, field) = 1
        /\ \E other \in Parents \ {parent} : Occurrences(query, other, field) = 1

\* C21: add_variable fails for a name the query has declared already and
\* leaves the declared type and value of that variable as they are: no
\* call changes a variable that is declared.
C21_DeclaredOnce ==
    [][\A i \in DOMAIN query.variables :
            /\ i \in DOMAIN query'.variables
            /\ query'.variables[i] = query.variables[i]]_vars

\* A name is declared once: a call with a new name adds it behind the
\* others and leaves them alone.
NewNameDeclared ==
    [][Len(query'.variables) > Len(query.variables) =>
            SubSeq(query'.variables, 1, Len(query.variables)) = query.variables]_vars

(***************************************************************************)
(* Claims about the single-result functions (under SpecVersions)           *)
(***************************************************************************)
SingleResultFunctions ==
    {"get_version_by_id", "get_hero_version_by_id",
     "get_hero_version_by_subset_id", "get_last_version_by_subset_id"}

\* C12: a single-result function returns the first element of the list its
\* plural lookup returned when that list is not empty, and None without
\* raising when it is empty.
C12_FirstOrNone ==
    (pc = "done" /\ fn \in SingleResultFunctions) =>
        /\ raised = ""
        /\ result = IF local.versions # <<>> THEN Some(local.versions[1]) ELSE None

\* The functions that return on 'if versions' do so.
C12_FirstOrNoneOfTruthy ==
    (pc = "done" /\ fn \in SingleResultFunctions \ {"get_last_version_by_subset_id"}) =>
        /\ raised = ""
        /\ result = IF local.versions # <<>> THEN Some(local.versions[1]) ELSE None


(***************************************************************************)
(* Claims about the subset functions (under SpecSubsets)                   *)
(***************************************************************************)
\* The places of the answer whose subset has a name that
\* names_by_asset_ids allows for the subset's own folder.
AllowedPlaces ==
    LET m == Val(args.names_by_asset_ids)
    IN  {j \in DOMAIN local.subsets :
            /\ local.subsets[j].folderId \in DOMAIN m
            /\ local.subsets[j].name \in m[local.subsets[j].folderId]}

\* C17: with a non-empty names_by_folder_ids the list _get_subsets returns
\* holds exactly one converted record for each subset of the answer whose
\* name is allowed for its own folder, and no other subset.
C17_AllowedSubsetsReturned ==
    (/\ pc = "done"
     /\ fn = "get_subsets"
     /\ args.names_by_asset_ids \notin {None, Some(EmptyDict)}
     /\ queries = 1) =>
        \A subset \in SubsetRecs :
            Cardinality({i \in DOMAIN result : result[i]._id = subset.id})
                = Cardinality({j \in AllowedPlaces : local.subsets[j] = subset})


ChainReturned == pc = "done" /\ fn = "get_last_version_by_subset_name"
NotGiven(arg) == arg \in {None, Some("")}

\* C13: get_last_version_by_subset_name returns None without any lookup
\* when neither asset_id nor asset_name is given, None without a subset
\* lookup when the asset is not found by name, None without a version
\* lookup when the subset is not found, and otherwise, without raising, the
\* last version of the subset it found, looked up by the subset's id.
C13_ResolutionChain ==
    ChainReturned =>
        IF NotGiven(args.asset_id) /\ NotGiven(args.asset_name)
        THEN raised = "" /\ result = None /\ queries = 0
        ELSE IF local.asset_id = None
        THEN raised = "" /\ result = None /\ local.subset_queries = 0
        ELSE IF local.subset = None
        THEN raised = "" /\ result = None /\ local.version_queries = 0
        ELSE /\ raised = ""
             /\ local.version_queries > 0
             /\ bound.subsetIds = <<Val(local.subset)._id>>
             /\ result = IF local.versions = <<>> THEN None ELSE Some(local.versions[1])

\* The chain stops at the first link that is missing.
C13_StopsAtMissingLink ==
    ChainReturned =>
        /\ (NotGiven(args.asset_id) /\ NotGiven(args.asset_name))
                => (raised = "" /\ result = None /\ queries = 0)
        /\ local.asset_id = None
                => (raised = "" /\ result = None /\ local.subset_queries = 0)
        /\ local.subset = None
                => (raised = "" /\ result = None /\ local.version_queries = 0)

\* The asset was found by its name and the subset below it.
C13_SubsetFound ==
    /\ ChainReturned
    /\ NotGiven(args.asset_id)
    /\ local.asset_queries > 0
    /\ local.subset # None


(***************************************************************************)
(* Claims about the parents of representations (under SpecParents)         *)
(***************************************************************************)
\* The ancestors the answer holds for a representation: the version, the
\* subset and the folder of the last entry with that id.
AnsweredFor(repre_id) ==
    LET places == {i \in DOMAIN local.representations :
                        local.representations[i].id = repre_id}
        last == CHOOSE i \in places : \A j \in places : j <= i
    IN  local.representations[last]

\* C18: get_representations_parents, given representations, returns
\* without raising a mapping with one entry for the '_id' of each of
\* them: the version, the subset and the folder the parents query answered
\* for it, with the project document as the fourth element.
C18_ParentsOfEach ==
    (/\ pc = "done"
     /\ fn = "get_representations_parents"
     /\ args.representations # <<>>) =>
        /\ raised = ""
        /\ DOMAIN result = {args.representations[i]._id : i \in DOMAIN args.representations}
        /\ \A repre_id \in DOMAIN result :
            (\E i \in DOMAIN local.representations :
                    local.representations[i].id = repre_id)
              => /\ Len(result[repre_id]) = 4
                 /\ result[repre_id][1]._id = AnsweredFor(repre_id).version.id
                 /\ result[repre_id][2]._id = AnsweredFor(repre_id).version.subset.id
                 /\ result[repre_id][3]._id = AnsweredFor(repre_id).version.subset.folder.id
                 /\ result[repre_id][4] = local.project

\* The v4 function gives every representation asked for and answered its
\* ancestors and the project.
ParentsOfAnswered ==
    (pc = "done" /\ fn = "get_v4_representations_parents" /\ queries = 1) =>
        /\ raised = ""
        /\ args.representation_ids \subseteq DOMAIN result
        /\ \A i \in DOMAIN local.representations :
                LET repre_id == local.representations[i].id
                IN  /\ result[repre_id][3] = Some(AnsweredFor(repre_id).version.subset.folder)
                    /\ result[repre_id][4] = Some(local.project)


(***************************************************************************)
(* Claims about fields_to_dict (under SpecFields)                          *)
(***************************************************************************)
FieldsConverted == pc = "done" /\ fn = "fields_to_dict" /\ args.fields # None
Supplied == {Val(args.fields)[i] : i \in DOMAIN Val(args.fields)}

IsProperPrefix(p, q) == Len(p) < Len(q) /\ SubSeq(q, 1, Len(p)) = p
\* The supplied paths none of whose proper prefixes is supplied.
Outermost(P) == {p \in P : ~\E q \in P : IsProperPrefix(q, p)}

RECURSIVE Leaves(_)
\* The paths of the wildcard leaves of a nested mapping.
Leaves(tree) ==
    IF tree.all THEN {<<>>}
    ELSE UNION {{<<k>> \o rest : rest \in Leaves(tree.items[k])} : k \in DOMAIN tree.items}

RECURSIVE MappingOf(_)
\* The nested mapping whose wildcard leaves are the paths S.
MappingOf(S) ==
    IF <<>> \in S THEN [all |-> TRUE]
    ELSE [all |-> FALSE,
          items |-> [k \in {p[1] : p \in S} |->
                        MappingOf({Tail(p) : p \in {q \in S : q[1] = k}})]]

\* C22: flattening fields_to_dict(P) to its wildcard leaves gives P when no
\* path of P is a proper prefix of another; for any P a path with a proper
\* prefix in P gives no leaf of its own, in whatever order the paths come.
C22_RoundTrip ==
    (FieldsConverted /\ Supplied # {}) =>
        /\ result # None
        /\ Outermost(Supplied) = Supplied => Leaves(Val(result)) = Supplied
        /\ \A p \in Supplied :
                (\E q \in Supplied : IsProperPrefix(q, p)) => p \notin Leaves(Val(result))
        /\ Leaves(Val(result)) \subseteq Supplied

\* A path came before its prefix and is absorbed by it all the same.
C22_Witness ==
    /\ FieldsConverted
    /\ Len(Val(args.fields)) = 3
    /\ Val(args.fields)[1] = <<"data", "tasks", "name">>
    /\ Val(args.fields)[2] = <<"id">>
    /\ Val(args.fields)[3] = <<"data">>
    /\ Leaves(Val(result)) = {<<"id">>, <<"data">>}

\* C29: fields_to_dict gives the same nested mapping for every order of
\* the same set of paths, and for a path supplied twice the mapping of the
\* path supplied once: the mapping is the one the set of paths stands for.
C29_OrderIndependent ==
    FieldsConverted =>
        result = IF Supplied = {} THEN None
                 ELSE Some(MappingOf(Outermost(Supplied)))

\* A path is supplied twice, around another one.
C29_Witness ==
    /\ FieldsConverted
    /\ Len(Val(args.fields)) = 3
    /\ Val(args.fields)[1] = Val(args.fields)[3]
    /\ Val(args.fields)[1] # Val(args.fields)[2]
    /\ Val(args.fields)[1] = <<"data", "tasks">>
    /\ Val(args.fields)[2] = <<"data", "family">>
    /\ result = Some(MappingOf({<<"data", "tasks">>, <<"data", "family">>}))

(***************************************************************************)
(* Claims about the walk over the pages                                    *)
(***************************************************************************)
Walks == IF pc = "paging" THEN DOMAIN local ELSE {}

\* The cursors a walk over n pages sends: none, then the one of each page.
CursorsSent(n) == [k \in 1..n |-> IF k = 1 THEN None ELSE Some(k - 1)]

RECURSIVE Executions(_)
Executions(walks) ==
    IF walks = <<>> THEN 0
    ELSE Len(Head(walks).sent) + Executions(Tail(walks))

\* C25: every walk of continuous_query has yielded the server's pages from
\* the first one on, in the server's order, one page per execution; the
\* first execution carries no cursor and each later one the cursor that
\* ended the page before; the walk is over exactly when the last page the
\* server has was yielded, so no execution follows a response without a next
\* page; and what a walk has sent and yielded depends on its own pages only,
\* whatever the other walks did (the executions of all walks add up).
C25_CursorWalk ==
    /\ \A c \in Walks :
        LET walk == local[c]
            n == Len(walk.yielded)
        IN  /\ n <= Len(walk.pages)
            /\ walk.yielded = SubSeq(walk.pages, 1, n)
            /\ walk.sent = CursorsSent(n)
            /\ walk.exhausted <=> n = Len(walk.pages)
    /\ pc = "paging" => queries = Executions(local)

\* Two walks over different answers of two pages: one is over, the other has
\* its first page only.
C25_Witness ==
    \E c, d \in Walks :
        /\ c /= d
        /\ Len(local[c].pages) = 2 /\ local[c].exhausted
        /\ local[c].pages[1] /= local[c].pages[2]
        /\ Len(local[d].pages) = 2 /\ Len(local[d].yielded) = 1
        /\ local[d].pages /= local[c].pages

(***************************************************************************)
(* Claims about the arguments of a field                                   *)
(***************************************************************************)
\* The value of a filter as the argument list is said to show it.
ValueText(value) ==
    IF value.kind = "list"
    THEN "[" \o JoinStr([i \in DOMAIN value.items |->
                            "\"" \o value.items[i] \o "\""], ", ") \o "]"
    ELSE value.text

KeyValue(f) == f.key \o ": " \o ValueText(f.value)

\* C26: the argument parenthetical of every field holds each filter set on
\* the field once, as 'key: value', in the order the keys were first set and
\* separated by commas; the value is '$name' for a QueryVariable, the
\* bracketed quoted items for a list literal and the literal otherwise; a
\* key set again keeps its last value only (one entry per key).
C26_FiltersAsKeyValue ==
    \A field \in DOMAIN query.nodes :
        LET filters == query.nodes[field].filters
        IN  /\ \A i, j \in DOMAIN filters : filters[i].key = filters[j].key => i = j
            /\ _filters_to_string(filters) =
                    IF filters = <<>> THEN ""
                    ELSE "(" \o JoinStr([i \in DOMAIN filters |-> KeyValue(filters[i])],
                                        ", ") \o ")"

\* What holds of the code: filters that are no list literals are rendered
\* as 'key: value', and the variable as its '$name'.
ScalarFiltersAsKeyValue ==
    \A field \in DOMAIN query.nodes :
        LET filters == query.nodes[field].filters
        IN  (filters # <<>> /\ \A i \in DOMAIN filters : filters[i].value.kind # "list")
            => /\ _filters_to_string(filters) =
                    "(" \o JoinStr([i \in DOMAIN filters |-> KeyValue(filters[i])], ", ")
                        \o ")"
               /\ \A i \in DOMAIN filters :
                    filters[i].value.text \in {"$projectName", "proj1"}

(***************************************************************************)
(* Claims about the header of a query                                      *)
(***************************************************************************)
\* A text starts with another one.
StartsWith(text, start) ==
    Len(start) <= Len(text) /\ SubSeq(text, 1, Len(start)) = start

\* The header as it is said to be: the name, and the declared variables in
\* the order of their declaration, each as '$var: String!'.
HeaderOf(q) ==
    "query " \o q.name \o
        (IF q.variables = <<>> THEN ""
         ELSE "(" \o JoinStr([i \in DOMAIN q.variables |->
                                "$" \o q.variables[i].key \o ": String!"], ",") \o ")")

\* C27: a query with a field is rendered whatever types its variables were
\* declared with, the str type or the text "String!" (no TypeError), and a
\* rendering that succeeds starts with the line 'query <Name>', followed by
\* the parenthesised comma-joined '$var: Type!' of the declared variables in
\* declaration order when there is one, and ' {'.
C27_Header ==
    (Rendered /\ query.children # <<>>) =>
        /\ raised # "TypeError"
        /\ raised = "" => StartsWith(result, HeaderOf(query) \o " {\n")

\* What holds of the code: with variables of the str type only the header is
\* the one above; a variable declared with the text "String!" makes the
\* rendering raise TypeError and leaves no text.
C27_HeaderOfStrVariables ==
    (Rendered /\ query.children # <<>>) =>
        /\ raised = "TypeError"
            <=> \E i \in DOMAIN query.variables : query.variables[i].type = "String!"
        /\ raised = "" => StartsWith(result, HeaderOf(query) \o " {\n")
        /\ raised # "" => result = ""

HeaderRenderedWithVariable ==
    Rendered /\ raised = "" /\ query.variables # <<>>

(***************************************************************************)
(* Claims about the rendered tree                                          *)
(***************************************************************************)
\* The places of a text that hold the character c.
PlacesOf(text, c) == {i \in 1..Len(text) : SubSeq(text, i, i) = c}

\* The lines of a text: what stands between its line breaks.
LinesOf(text) ==
    LET breaks == PlacesOf(text, "\n") \cup {0, Len(text) + 1}
        nth(k) == CHOOSE p \in breaks : Cardinality({b \in breaks : b < p}) = k
    IN  [k \in 1..(Cardinality(breaks) - 1) |->
            SubSeq(text, nth(k - 1) + 1, nth(k) - 1)]

RECURSIVE Stripped(_)
\* A line without the blanks before it.
Stripped(line) ==
    IF Len(line) > 0 /\ SubSeq(line, 1, 1) = " "
    THEN Stripped(SubSeq(line, 2, Len(line)))
    ELSE line

\* Every '}' of the text closes a brace that is open at its place, and none
\* stays open at the end.
Nested(text) ==
    LET opens == PlacesOf(text, "{")
        closes == PlacesOf(text, "}")
    IN  /\ Cardinality(opens) = Cardinality(closes)
        /\ \A c \in closes :
            Cardinality({o \in opens : o < c}) >= Cardinality({d \in closes : d <= c})

RECURSIVE ShapeOf(_)
RECURSIVE ShapesOf(_)
\* The lines a field is said to give, blanks before them aside: its own
\* line alone when it has no children; else its line opened with ' {', the
\* 'edges {' and 'node {' lines exactly when it has the has-edges flag, the
\* lines of its children in attach order, and the closing lines.
ShapesOf(children) ==
    IF children = <<>> THEN <<>>
    ELSE ShapeOf(Head(children)) \o ShapesOf(Tail(children))

ShapeOf(field) ==
    LET node == query.nodes[field]
        line == node.name \o _filters_to_string(node.filters)
    IN  IF node.children = <<>> THEN <<line>>
        ELSE <<line \o " {">>
             \o (IF node.has_edges THEN <<"edges {", "node {">> ELSE <<>>)
             \o ShapesOf(node.children)
             \o (IF node.has_edges THEN <<"}", "}">> ELSE <<>>)
             \o <<"}">>

RenderedLines == LinesOf(result)

\* C28: the text of a query that renders without error has, below its
\* header line and above its closing line, the lines of its fields in attach
\* order: a field with children is opened and closed around the lines of
\* its children, inside an 'edges {' / 'node {' shell exactly when it has
\* the has-edges flag, a field without children (and without the flag) is
\* one line without braces; and every '}' of the text closes the brace
\* opened last, none staying open.
C28_TreeShape ==
    (Rendered /\ raised = "") =>
        LET lines == RenderedLines
            below == [i \in 1..(Len(lines) - 1) |-> Stripped(lines[i + 1])]
        IN  /\ Nested(result)
            /\ Len(lines) >= 3
            /\ below = ShapesOf(query.children) \o <<"}">>
            /\ \A f \in InTree :
                (query.nodes[f].children = <<>>)
                    => /\ ~query.nodes[f].has_edges
                       /\ \E i \in DOMAIN below : below[i] = ShapeOf(f)[1]
                       /\ PlacesOf(ShapeOf(f)[1], "{") = {}
                       /\ PlacesOf(ShapeOf(f)[1], "}") = {}

\* A rendered query whose field with the has-edges flag has a child with a
\* filter and without children.
C28_Witness ==
    /\ Rendered /\ raised = ""
    /\ \E f \in InTree :
        /\ query.nodes[f].has_edges
        /\ \E g \in Range(query.nodes[f].children) :
            query.nodes[g].children = <<>>

\* A rendered query whose field without the flag has a child.
PlainParentRendered ==
    /\ Rendered /\ raised = ""
    /\ \E f \in InTree : ~query.nodes[f].has_edges /\ query.nodes[f].children # <<>>

(***************************************************************************)
(* Claims about populate_template (under SpecTemplate)                     *)
(***************************************************************************)
Populated == pc = "done" /\ fn = "populate_template"

\* The ids the call ignores.
Ignored == IF args.ignored_ids = None THEN {} ELSE Val(args.ignored_ids)

\* The representations there are to process: the k-th of the i-th node, for
\* every node that is a valid placeholder.
ToProcess ==
    {<<i, k>> : i \in {n \in DOMAIN args.nodes : args.nodes[n].valid},
                k \in 1..MaxDocs} \cap
    {ik \in (DOMAIN args.nodes) \X (1..MaxDocs) : ik[2] <= Len(args.nodes[ik[1]].docs)}

At(events, i) == <<events[i].placeholder, events[i].doc>>

\* The hooks ran as they are said to run.
HooksAsClaimed(events) ==
    LET preloads == {i \in DOMAIN events : events[i].hook = "preload"}
        loads == {i \in DOMAIN events : events[i].hook = "load"}
        DocAt(i) == args.nodes[events[i].placeholder].docs[events[i].doc]
    IN  \* every representation of every placeholder is preloaded, once
        /\ {At(events, i) : i \in preloads} = ToProcess
        /\ Cardinality(preloads) = Cardinality(ToProcess)
        \* placeholders in ascending order
        /\ \A i, j \in DOMAIN events :
            i < j => args.nodes[events[i].placeholder].order
                        <= args.nodes[events[j].placeholder].order
        \* the representations of a placeholder in their order
        /\ \A i, j \in preloads :
            (i < j /\ events[i].placeholder = events[j].placeholder)
                => events[i].doc < events[j].doc
        \* load right after preload, exactly for a filled document whose id
        \* is not ignored
        /\ \A i \in preloads :
            (i + 1 \in loads /\ At(events, i + 1) = At(events, i))
                <=> (DocAt(i) # EmptyDoc /\ DocAt(i).id \notin Ignored)
        /\ \A i \in loads : i - 1 \in preloads /\ At(events, i - 1) = At(events, i)
        \* one of load_succeed and load_failed after a load, then postload
        /\ \A i \in loads :
            /\ i + 2 \in DOMAIN events
            /\ events[i + 1] = Hook(IF DocAt(i).raises THEN "load_failed"
                                    ELSE "load_succeed",
                                    events[i].placeholder, events[i].doc)
            /\ events[i + 2] = Hook("postload", events[i].placeholder, events[i].doc)
        \* and no hook besides
        /\ Len(events) = Cardinality(preloads) + 3 * Cardinality(loads)

\* C30: a call of populate_template of a template loader raises nothing
\* and has run the hooks in this order: the placeholders by ascending
\* 'order'; for every representation of every placeholder preload first;
\* load only for a representation that is not empty and whose id is not
\* ignored; after every load load_succeed when it returned and load_failed
\* when it raised, and then postload; a load that raised is followed by
\* the hooks of all the representations and placeholders left.
C30_HooksInOrder ==
    Populated => raised = "" /\ HooksAsClaimed(local.events)

\* What holds of the text of the function, were the module to compile: its
\* loop runs the hooks as claimed, for every template and every ignored ids.
LoopRunsHooksAsClaimed ==
    Populated => HooksAsClaimed(PopulateTemplateBody(args.nodes, args.ignored_ids))

\* A template of two placeholders given against their order, the loader
\* raising on a representation of the one that comes first.
TwoPlaceholdersOutOfOrder ==
    /\ Populated
    /\ Len(args.nodes) = 2
    /\ args.nodes[1].valid /\ args.nodes[2].valid
    /\ args.nodes[1].order > args.nodes[2].order
    /\ \E k \in DOMAIN args.nodes[2].docs : args.nodes[2].docs[k].raises
    /\ args.nodes[1].docs # <<>>

====
